---- MODULE Spec2Model ----
\* A model of the mcpl daemon: the per-session shim-facing loop, the per-server
\* stdout dispatcher, the ID mapper, the init cache, the subscription tracker,
\* the managed-server state machine with its crash budget, and the optional
\* serialization queue.
EXTENDS Integers, Sequences, FiniteSets, TLC

\* ---------------------------------------------------------------- bounds

\* Lines read from all sessions together, after their handshakes.
MaxMsgs == 2

\* The same, in the specification of a serialize=true server.
MaxSerMsgs == 3

\* Wall-clock horizon, in seconds.
MaxTime == 60

\* Requests and notifications the servers emit on their own in a run.
MaxServerReqs == 1

\* ------------------------------------------------------ program constants

maxCrashes == 3

crashWindow == 60

\* ---------------------------------------------------------------- universe

\* Session.ID is uuid.New().String(): every connection gets a fresh one. The ids
\* are opaque, so the k-th accepted connection is given the id k.
SessionIDs == {1, 2, 3, 4}

\* Connections accepted in a run of the routing specifications.
RouteSessions == {1, 2}

ServerNames == {"mock", "aux"}

\* Raw JSON text is a sequence of characters. The ids a shim uses here: the
\* integers 1 and 2, and the string "<1>".
Int1 == <<"1">>

Int2 == <<"2">>

StrLt1Gt == <<"\"", "<", "1", ">", "\"">>

URIs == {"file:///x"}

\* The longest a server's stdin log can get within the bounds.
MaxLines == MaxMsgs + MaxSerMsgs + 2

\* An absent id (a nil json.RawMessage).
NoID == << >>

\* A raw result body: absent, the object {}, an opaque value, or {"roots":[...]}.
NoResult == [kind |-> "absent", val |-> "", roots |-> << >>]

EmptyObject == [kind |-> "object", val |-> "{}", roots |-> << >>]

Value(v) == [kind |-> "value", val |-> v, roots |-> << >>]

RootsResult(rs) == [kind |-> "roots", val |-> "", roots |-> rs]

\* ------------------------------------------------------- JSON-RPC envelope

NoParams == [capabilities |-> {}, uri |-> "", requestId |-> NoID, progressToken |-> ""]

Message(id, method, params, result, error) ==
    [id |-> id, method |-> method, params |-> params, result |-> result, error |-> error]

Request(id, method) == Message(id, method, NoParams, NoResult, "")

Notification(method) == Message(NoID, method, NoParams, NoResult, "")

InitializeRequest(id, caps) ==
    Message(id, "initialize", [NoParams EXCEPT !.capabilities = caps], NoResult, "")

ResourceRequest(id, method, uri) ==
    Message(id, method, [NoParams EXCEPT !.uri = uri], NoResult, "")

IsRequest(m) == m.id # NoID /\ m.method # ""

IsResponse(m) == m.id # NoID /\ m.method = ""

IsNotification(m) == m.id = NoID /\ m.method # ""

Digits == <<"0", "1", "2", "3", "4", "5", "6", "7", "8", "9">>

IsDigit(c) == \E d \in DOMAIN Digits : Digits[d] = c

DigitValue(c) == (CHOOSE d \in DOMAIN Digits : Digits[d] = c) - 1

\* strconv.FormatUint(globalID, 10)
RECURSIVE FormatUint(_)
FormatUint(n) ==
    IF n < 10 THEN <<Digits[n + 1]>>
    ELSE FormatUint(n \div 10) \o <<Digits[(n % 10) + 1]>>

\* json.Unmarshal(raw, &uint64) returns no error: raw is a JSON integer literal
\* without sign, fraction or exponent (a JSON number has no leading zero).
IsUint(raw) ==
    /\ raw # << >>
    /\ \A i \in DOMAIN raw : IsDigit(raw[i])
    /\ Len(raw) > 1 => raw[1] # "0"

\* The value json.Unmarshal(raw, &uint64) stores.
RECURSIVE ParseUint(_)
ParseUint(raw) ==
    IF Len(raw) = 1 THEN DigitValue(raw[1])
    ELSE 10 * ParseUint(SubSeq(raw, 1, Len(raw) - 1)) + DigitValue(raw[Len(raw)])

\* json.Marshal of a json.RawMessage: the bytes pass through compact with
\* escapeHTML set, which writes <, > and & as \u003c, \u003e and \u0026.
EscapeChar(c) ==
    IF c = "<" THEN <<"\\", "u", "0", "0", "3", "c">>
    ELSE IF c = ">" THEN <<"\\", "u", "0", "0", "3", "e">>
    ELSE IF c = "&" THEN <<"\\", "u", "0", "0", "2", "6">>
    ELSE <<c>>

RECURSIVE MarshalRaw(_)
MarshalRaw(raw) ==
    IF raw = << >> THEN << >> ELSE EscapeChar(Head(raw)) \o MarshalRaw(Tail(raw))

\* Message.Serialize: json.Marshal(m), the raw id and the raw params
\* re-encoded.
Serialize(m) == [m EXCEPT !.id = MarshalRaw(@), !.params.requestId = MarshalRaw(@)]

isInitializeRequest(m) == IsRequest(m) /\ m.method = "initialize"

isInitializedNotification(m) == IsNotification(m) /\ m.method = "initialized"

isSubscribeRequest(m) == IsRequest(m) /\ m.method = "resources/subscribe"

isUnsubscribeRequest(m) == IsRequest(m) /\ m.method = "resources/unsubscribe"

isCancellationNotification(m) == IsNotification(m) /\ m.method = "notifications/cancelled"

MaximalCapabilities == {"roots", "sampling"}

rewriteInitCapabilities(m) ==
    [m EXCEPT !.params = [m.params EXCEPT !.capabilities = MaximalCapabilities]]

ParseClientCapabilities(params) ==
    [roots |-> "roots" \in params.capabilities, sampling |-> "sampling" \in params.capabilities]

\* ------------------------------------------------------- partial functions

Remove(f, k) == [x \in DOMAIN f \ {k} |-> f[x]]

Put(f, k, v) == [x \in DOMAIN f \cup {k} |-> IF x = k THEN v ELSE f[x]]

Empty == [x \in {} |-> 0]

\* ---------------------------------------------------------------- IDMapper

MutNextGlobalStale(cnt) == IF cnt = 0 THEN 1 ELSE cnt

\* m.counter.Add(1) in Map
NextGlobal(cnt) == cnt + 1

\* A progress token as it stands in the JSON text: a string or an integer.
ProgressTokenForms == {"\"t\"", "\"7\"", "7"}

\* json.Unmarshal of a token into a string, and failing that into an int64
\* rendered with %d: the key of the progress-token table.
TokenKey(raw) ==
    CASE raw = "\"t\"" -> "t"
      [] raw = "\"7\"" -> "7"
      [] raw = "7" -> "7"
      [] OTHER -> ""

\* ExtractProgressToken: params._meta.progressToken of a session's request.
ExtractProgressToken(msg) ==
    [ok |-> msg.params.progressToken \in ProgressTokenForms,
     token |-> TokenKey(msg.params.progressToken)]

\* A request that asks for progress under the token raw.
ProgressRequest(id, method, raw) ==
    Message(id, method, [NoParams EXCEPT !.progressToken = raw], NoResult, "")

\* notifications/progress as a server emits it: params.progressToken is raw.
ProgressNotification(raw) ==
    Message(NoID, "notifications/progress", [NoParams EXCEPT !.progressToken = raw],
            NoResult, "")

\* notifications/resources/updated for uri.
ResourceUpdated(uri) ==
    Message(NoID, "notifications/resources/updated", [NoParams EXCEPT !.uri = uri],
            NoResult, "")

\* notifications/cancelled for the request the session numbered id.
Cancelled(id) ==
    Message(NoID, "notifications/cancelled", [NoParams EXCEPT !.requestId = id],
            NoResult, "")

\* m.counter.Add(1) in NextID
NextID(cnt) == cnt + 1

\* IDMapper.Map: the mapping is stamped with time.Now().
MapInsert(mp, g, originalID, sessionID, createdAt) ==
    Put(mp, g, [OriginalID |-> originalID, SessionID |-> sessionID, CreatedAt |-> createdAt])

\* IDMapper.GC at time t: the mappings created before t - maxAge are deleted.
GC(mp, maxAge, t) ==
    [g \in {x \in DOMAIN mp : ~(mp[x].CreatedAt < t - maxAge)} |-> mp[g]]

Unmap(mp, g) == Remove(mp, g)

\* Reverse lookup by (originalID, sessionID) for cancellations.
MutFindGlobalIDsAnySession(mp, originalID, sessionID) ==
    {g \in DOMAIN mp : mp[g].OriginalID = originalID}

FindGlobalIDs(mp, originalID, sessionID) ==
    {g \in DOMAIN mp : mp[g].OriginalID = originalID /\ mp[g].SessionID = sessionID}

\* ----------------------------------------------------- SubscriptionTracker

Subscribe(subs, uri, sid) == [subs EXCEPT ![uri] = @ \cup {sid}]

Unsubscribe(subs, uri, sid) == [subs EXCEPT ![uri] = @ \ {sid}]

MutRemoveSessionNone(subs, sid) == subs

RemoveSession(subs, sid) == [u \in DOMAIN subs |-> subs[u] \ {sid}]

Orphaned(subs, sid) == {u \in DOMAIN subs : subs[u] = {sid}}

\* ------------------------------------------------------------ ManagedServer

validTransitions ==
    [STOPPED |-> {"STARTING"},
     STARTING |-> {"INITIALIZING", "STOPPED"},
     INITIALIZING |-> {"READY", "STOPPED"},
     READY |-> {"DRAINING"},
     DRAINING |-> {"STOPPED", "READY"}]

MutIsValidTransitionAny(from, to) == TRUE

IsValidTransition(from, to) == to \in validTransitions[from]

\* RecordCrash: append now, keep the timestamps after now - crashWindow.
RECURSIVE FilterAfter(_, _)
FilterAfter(ts, cutoff) ==
    IF ts = << >> THEN << >>
    ELSE IF Head(ts) > cutoff THEN <<Head(ts)>> \o FilterAfter(Tail(ts), cutoff)
    ELSE FilterAfter(Tail(ts), cutoff)

MutRecordCrashDrop(cr, t) == FilterAfter(cr, t - crashWindow)

RecordCrash(cr, t) == FilterAfter(Append(cr, t), t - crashWindow)

MutForceStopNone(st, srv) == st

\* ForceStop: the state becomes STOPPED whatever it was.
ForceStop(st, srv) == [st EXCEPT ![srv] = "STOPPED"]

MutIsFailedNoWindow(cr, t) == Len(cr) >= maxCrashes

IsFailed(cr, t) ==
    IF Len(cr) < maxCrashes THEN FALSE
    ELSE Len(FilterAfter(cr, t - crashWindow)) >= maxCrashes

\* ---------------------------------------------------------------- state

VARIABLES
    cfgFile,           \* the config file on disk: how each name is declared
    fileErr,           \* why reading the config file fails now, "" when it can be read
    cfg,               \* d.cfg: the configuration loaded last
    config,            \* ManagedServer.config: the entry each server was made from
    listener,          \* d.listener: "open" while Run accepts connections
    files,             \* the socket and PID files that exist
    servers,           \* d.servers: names in the registry
    serialize,         \* ServerConfig.Serialize, per server
    state,             \* ManagedServer.state
    crashes,           \* ManagedServer.crashes
    alive,             \* the subprocess runs and reads its stdin
    procStart,         \* length of the stdin log when the running process was spawned
    connections,       \* ManagedServer.connections
    now,               \* time.Now(), seconds
    pool,              \* ids uuid.New has not handed out yet
    sessions,          \* d.sessions
    pc,                \* where each connection's handler is
    serverName,        \* Session.ServerName
    capabilities,      \* Session.Capabilities
    counter,           \* IDMapper.counter
    mappings,          \* IDMapper.mappings
    initCache,         \* InitCache.cached
    pendingInit,       \* d.pendingInit
    pendingFanout,     \* d.pendingFanout: fan-out id -> index of its aggregator
    aggs,              \* the rootsAggregators created so far
    progressTokens,    \* d.progressTokens
    subscriptions,     \* SubscriptionTracker.subscriptions
    serializeQueue,    \* SerializeQueue.queue, per server
    serializeWaiters,  \* ManagedServer.serializeWaiters (the open channels)
    closedDone,        \* global ids whose done channel has been closed
    worker,            \* processLoop: 0 when idle, else the entry it blocks on
    stdin,             \* lines written to each server's stdin
    conn,              \* lines written to each session's connection
    issued,            \* history: global id -> the request it was allocated for
    issueLog,          \* history: the ids the counter handed out, in order
    emitted,           \* history: responses the server emitted
    requested,         \* history: the requests and notifications servers emitted
    replied,           \* history: the connection lines a session has answered
    declared,          \* history: the capabilities of each session's last initialize
    hello,             \* history: the first line each connection sent
    handshook,         \* history: sessions that sent initialized after the server's
                       \* result for their initialize had been written to them
    asked,             \* history: per session, the token keys its requests carried
    held,              \* sessionLoop between its decision to forward a line and the
                       \* write: the line, per session
    mu,                \* d.mu while handleRootsList holds it: the reader's server, the
                       \* sessions its loop has still to write to, its aggregator
    sq,                \* one SerializeQueue: queue, notify (tokens buffered), closed, nextID
    sqLoop,            \* its processLoop goroutine: position and the entry it runs
    sqCall,            \* the goroutines calling the queue: position inside the call
    sqLog,             \* history of the queue: calls, appends, starts, skips, cancels
    nmsgs,             \* history: lines read from sessions
    limit,             \* how many lines the sessions send in this run
    startLog,          \* history: the last start attempt and its outcome
    crashLog,          \* history: unexpected exits since the last ResetCrashes
    budgetHit          \* history: maxCrashes exits fell within one window, no reset since

hostVars == <<cfgFile, fileErr, cfg, config, listener, files>>

serverVars == <<servers, serialize, state, crashes, alive, procStart, connections>>

sessionVars == <<pool, sessions, pc, serverName, capabilities>>

idVars == <<counter, mappings, issued, issueLog>>

registryVars ==
    <<initCache, pendingInit, pendingFanout, aggs, progressTokens, subscriptions>>

queueVars == <<serializeQueue, serializeWaiters, closedDone, worker>>

ioVars == <<stdin, conn>>

\* Where a goroutine stands inside a handler, in the specifications that
\* interleave handlers.
sqVars == <<sq, sqLoop, sqCall, sqLog>>

fineVars == <<held, mu, sqVars>>

auditVars == <<handshook, asked, fineVars>>

historyVars ==
    <<emitted, requested, replied, declared, hello, auditVars, nmsgs, limit, startLog, crashLog,
      budgetHit>>

vars ==
    <<hostVars, serverVars, now, sessionVars, idVars, registryVars, queueVars, ioVars, historyVars>>

NoStart == [session |-> 0, hit |-> FALSE, recent |-> 0, outcome |-> "none"]

\* The first line of a connection: nothing before the connection closes
\* ("eof"), bytes that are not a JSON object ("text"), or a JSON object.
FirstLine(kind, mcpl, type, server) ==
    [kind |-> kind, mcpl |-> mcpl, type |-> type, server |-> server]

NoLine == FirstLine("none", 0, "", "")

\* d.mu is free.
NoMu == [holder |-> "", todo |-> << >>, k |-> 0]

\* The goroutines that call one SerializeQueue.
Callers == {"a", "b"}

\* queueEntry; fn is the number of the Enqueue call that passed the function.
queueEntry(id, fn) == [id |-> id, fn |-> fn, cancelled |-> FALSE]

NoEntry == queueEntry(0, 0)

\* NewSerializeQueue: an empty queue, notify of size 1, closed open, and the
\* processLoop goroutine under the wait group.
NewSerializeQueue ==
    /\ sq = [queue |-> << >>, notify |-> 0, closed |-> FALSE, nextID |-> 0]
    /\ sqLoop = [pc |-> "select", entry |-> NoEntry]
    /\ sqCall = [c \in Callers |-> [pc |-> "idle", entry |-> NoEntry, cancellable |-> FALSE]]
    /\ sqLog = [calls |-> 0, ret |-> << >>, appended |-> << >>, started |-> << >>,
                running |-> {}, skipped |-> {}, discarded |-> {}, late |-> {},
                early |-> {}, marked |-> {}, full |-> FALSE, atClose |-> {},
                returned |-> FALSE]

\* No line is held by the session's loop.
NoHeld == Message(NoID, "", NoParams, NoResult, "")

ConnectLine(srv) == FirstLine("object", 1, "connect", srv)

\* The entries a name can have in the file: declared ("managed"), declared with
\* other command and arguments ("managed:v2"), declared with managed=false, or
\* not in the file.
ManagedEntries == {"managed", "managed:v2"}

\* ServerConfig.IsManaged: the entry is declared and not marked managed=false.
IsManaged(entry) == entry \in ManagedEntries

\* NewManagedServer(name, scfg): the config reference of a server made from
\* the loaded configuration c; "none" while the registry has no such server.
NewManagedServer(c, n) == c[n]

\* New(): registries empty, every managed server STOPPED, no subprocess.
InitConfig(cfg0, ser, ids, lines) ==
    /\ cfgFile = cfg0
    /\ fileErr = ""
    /\ cfg = cfg0
    /\ config = [n \in ServerNames |->
                     IF IsManaged(cfg0[n]) THEN NewManagedServer(cfg0, n) ELSE "none"]
    /\ listener = "open"
    /\ files = {"socket", "pid"}
    /\ pool = ids
    /\ limit = lines
    /\ servers = {n \in ServerNames : IsManaged(cfg0[n])}
    /\ serialize = [n \in ServerNames |-> ser]
    /\ state = [n \in ServerNames |-> "STOPPED"]
    /\ crashes = [n \in ServerNames |-> << >>]
    /\ alive = [n \in ServerNames |-> FALSE]
    /\ procStart = [n \in ServerNames |-> 0]
    /\ connections = [n \in ServerNames |-> {}]
    /\ now = 0
    /\ sessions = {}
    /\ pc = [s \in SessionIDs |-> "new"]
    /\ serverName = [s \in SessionIDs |-> ""]
    /\ capabilities = [s \in SessionIDs |-> [roots |-> FALSE, sampling |-> FALSE]]
    /\ counter = 0
    /\ mappings = Empty
    /\ initCache = [n \in ServerNames |-> NoResult]
    /\ pendingInit = Empty
    /\ pendingFanout = Empty
    /\ aggs = << >>
    /\ progressTokens = Empty
    /\ subscriptions = [u \in URIs |-> {}]
    /\ serializeQueue = [n \in ServerNames |-> << >>]
    /\ serializeWaiters = [n \in ServerNames |-> {}]
    /\ closedDone = {}
    /\ worker = [n \in ServerNames |-> 0]
    /\ stdin = [n \in ServerNames |-> << >>]
    /\ conn = [s \in SessionIDs |-> << >>]
    /\ issued = Empty
    /\ issueLog = << >>
    /\ emitted = {}
    /\ requested = << >>
    /\ replied = {}
    /\ declared = [s \in SessionIDs |-> {}]
    /\ hello = [s \in SessionIDs |-> NoLine]
    /\ handshook = {}
    /\ asked = [s \in SessionIDs |-> {}]
    /\ held = [s \in SessionIDs |-> NoHeld]
    /\ mu = NoMu
    /\ NewSerializeQueue
    /\ nmsgs = 0
    /\ startLog = NoStart
    /\ crashLog = [n \in ServerNames |-> << >>]
    /\ budgetHit = [n \in ServerNames |-> FALSE]

\* The configuration of most runs: "mock" is managed, "aux" is not declared.
OnlyMock == [n \in ServerNames |-> IF n = "mock" THEN "managed" ELSE "absent"]

InitWith(ser, ids, lines) == InitConfig(OnlyMock, ser, ids, lines)

Init == InitWith(FALSE, RouteSessions, MaxMsgs)

InitLife == InitWith(FALSE, SessionIDs, 0)

\* ------------------------------------------------- handshake and lifecycle

Envelope(status, code) == Message(NoID, "", NoParams, Value(status), code)

\* A line written to a session's connection. path, owner and idx are history:
\* which code path wrote it and, for a routed response, the session whose request
\* the server was answering and the stdin line of that request.
ConnLine(m, path, owner, idx) == [msg |-> m, path |-> path, owner |-> owner, idx |-> idx]

\* A line written to a server's stdin. from and at are history: the session
\* whose line caused the write, 0 for a line the daemon originated, and the
\* value of the id counter when the daemon made the line.
StdinLine(m, from) == [msg |-> m, from |-> from, at |-> counter]

\* Timestamps of crashLog that lie within the window ending at t.
Recent(log, t) == Len(FilterAfter(log, t - crashWindow))

MutFailHandshakeKeep(s, code) ==
    /\ conn' = [conn EXCEPT ![s] = Append(@, ConnLine(Envelope("error", code), "handshake", 0, 0))]
    /\ pc' = [pc EXCEPT ![s] = "closed"]
    /\ UNCHANGED <<connections, sessions>>

\* handleConnection's failure path: unregister, one error line, close.
FailHandshake(s, code) ==
    /\ connections' = [connections EXCEPT ![serverName[s]] = @ \ {s}]
    /\ sessions' = sessions \ {s}
    /\ conn' = [conn EXCEPT ![s] = Append(@, ConnLine(Envelope("error", code), "handshake", 0, 0))]
    /\ pc' = [pc EXCEPT ![s] = "closed"]

\* json.Unmarshal(scanner.Bytes(), &req): the request, or an error.
Unmarshal(line) ==
    IF line.kind = "object"
    THEN [err |-> FALSE, req |-> [MCPL |-> line.mcpl, Type |-> line.type, Server |-> line.server]]
    ELSE [err |-> TRUE, req |-> [MCPL |-> 0, Type |-> "", Server |-> ""]]

MutValidateHandshakeNoVersion(req, protocolVersion) ==
    IF req.Type # "connect" THEN "invalid handshake type"
    ELSE IF req.Server = "" THEN "server name is required"
    ELSE ""

\* ValidateHandshake: the error, "" for nil.
ValidateHandshake(req, protocolVersion) ==
    IF req.MCPL # protocolVersion THEN "protocol version mismatch"
    ELSE IF req.Type # "connect" THEN "invalid handshake type"
    ELSE IF req.Server = "" THEN "server name is required"
    ELSE ""

\* config.ConfigFilePath and config.Load: the file's content, or an error (the
\* path cannot be resolved, the file is missing or has insecure permissions, or
\* its content is not JSON).
Load(file, err) == [err |-> err # "", cfg |-> file]

MutReloadConfigSync(reg, newCfg) == {n \in ServerNames : IsManaged(newCfg[n])}

\* reloadConfig's loop: the registry after newCfg has been loaded.
reloadConfig(reg, newCfg) == reg \cup {n \in ServerNames : IsManaged(newCfg[n])}

MutReloadedConfigReplace(reg, refs, newCfg) ==
    [n \in ServerNames |-> IF IsManaged(newCfg[n]) THEN NewManagedServer(newCfg, n) ELSE refs[n]]

\* reloadConfig's loop: the config reference of each server after newCfg has
\* been loaded; only a server the loop adds gets one.
reloadedConfig(reg, refs, newCfg) ==
    [n \in ServerNames |->
        IF n \notin reg /\ IsManaged(newCfg[n]) THEN NewManagedServer(newCfg, n) ELSE refs[n]]

\* handleConnection's early failures: one error line, then the deferred Close.
\* Nothing was registered.
writeError(s, code) ==
    /\ conn' = [conn EXCEPT ![s] = Append(@, ConnLine(Envelope("error", code), "handshake", 0, 0))]
    /\ pc' = [pc EXCEPT ![s] = "closed"]
    /\ UNCHANGED <<sessions, serverName, connections>>

\* handleConnection up to the auto-start decision, for the first line the
\* connection sends.
HandleConnection(s, line) ==
    /\ listener = "open"
    /\ pc[s] = "new"
    /\ s \in pool
    /\ \A x \in pool : s <= x
    /\ pool' = pool \ {s}
    /\ hello' = [hello EXCEPT ![s] = line]
    /\ LET parsed == Unmarshal(line)
           srv == parsed.req.Server
           loaded == Load(cfgFile, fileErr)
           reg == IF loaded.err THEN servers ELSE reloadConfig(servers, loaded.cfg)
           refs == IF loaded.err THEN config ELSE reloadedConfig(servers, config, loaded.cfg)
           stored == IF loaded.err THEN cfg ELSE loaded.cfg
       IN  IF line.kind = "eof"
           THEN /\ pc' = [pc EXCEPT ![s] = "closed"]
                /\ UNCHANGED <<servers, cfg, config, conn, sessions, serverName, connections>>
           ELSE IF parsed.err
           THEN writeError(s, "invalid_request") /\ UNCHANGED <<servers, cfg, config>>
           ELSE IF ValidateHandshake(parsed.req, 1) # ""
           THEN writeError(s, "protocol_error") /\ UNCHANGED <<servers, cfg, config>>
           ELSE IF srv \notin reg
           THEN /\ writeError(s, "unknown_server")
                /\ servers' = reg /\ cfg' = stored /\ config' = refs
           ELSE /\ servers' = reg /\ cfg' = stored /\ config' = refs
                /\ sessions' = sessions \cup {s}
                /\ serverName' = [serverName EXCEPT ![s] = srv]
                /\ connections' = [connections EXCEPT ![srv] = @ \cup {s}]
                /\ IF state[srv] = "STOPPED"
                   THEN /\ pc' = [pc EXCEPT ![s] = "ensure"]
                        /\ conn' = conn
                   ELSE /\ pc' = [pc EXCEPT ![s] = "loop"]
                        /\ conn' = [conn EXCEPT ![s] =
                               Append(@, ConnLine(Envelope("connected", ""), "handshake", 0, 0))]
    /\ UNCHANGED <<cfgFile, fileErr, listener, files, serialize, state, crashes, alive,
                   procStart, now, capabilities,
                   idVars, registryVars, queueVars, stdin, emitted, requested, replied,
                   declared, auditVars, nmsgs, limit, startLog, crashLog, budgetHit>>

\* A well-formed connect for a server of the registry.
Handshake(s, srv) == srv \in servers /\ HandleConnection(s, ConnectLine(srv))

\* The operator edits the config file: an entry is declared managed, declared
\* managed=false, or removed.
EditConfig(n, entry) ==
    /\ cfgFile[n] # entry
    /\ cfgFile' = [cfgFile EXCEPT ![n] = entry]
    /\ UNCHANGED <<fileErr, cfg, config, listener, files, serverVars, now, sessionVars,
                   idVars, registryVars, queueVars, ioVars, historyVars>>

\* The config file becomes unreadable (its directory cannot be resolved, its
\* permissions are widened, its content is cut short), or readable again.
BreakConfig(err) ==
    /\ fileErr # err
    /\ fileErr' = err
    /\ UNCHANGED <<cfgFile, cfg, config, listener, files, serverVars, now, sessionVars,
                   idVars, registryVars, queueVars, ioVars, historyVars>>

\* ensureServerRunning: the IsFailed guard and TransitionTo(StateStarting).
EnsureStart(s) ==
    /\ pc[s] = "ensure"
    /\ LET srv == serverName[s]
           attempt == [session |-> s, hit |-> budgetHit[srv],
                       recent |-> Recent(crashLog[srv], now), outcome |-> "none"]
       IN  IF IsFailed(crashes[srv], now)
           THEN /\ startLog' = [attempt EXCEPT !.outcome = "failed-server"]
                /\ FailHandshake(s, "start_failed")
                /\ state' = state
           ELSE IF ~IsValidTransition(state[srv], "STARTING")
           THEN /\ startLog' = [attempt EXCEPT !.outcome = "invalid-transition"]
                /\ FailHandshake(s, "start_failed")
                /\ state' = state
           ELSE /\ startLog' = [attempt EXCEPT !.outcome = "starting"]
                /\ state' = [state EXCEPT ![srv] = "STARTING"]
                /\ pc' = [pc EXCEPT ![s] = "spawn"]
                /\ UNCHANGED <<connections, sessions, conn>>
    /\ UNCHANGED <<hostVars, servers, serialize, crashes, alive, procStart, now, pool, serverName,
                   capabilities, idVars, registryVars, queueVars, stdin, emitted, requested,
                   replied, declared, hello, auditVars, nmsgs,
                   limit, crashLog, budgetHit>>

\* ensureServerRunning: server.Start, which spawns the subprocess or fails.
Spawn(s, ok) ==
    /\ pc[s] = "spawn"
    /\ LET srv == serverName[s]
       IN  IF ok
           THEN /\ alive' = [alive EXCEPT ![srv] = TRUE]
                /\ procStart' = [procStart EXCEPT ![srv] = Len(stdin[srv])]
                /\ pc' = [pc EXCEPT ![s] = "toInit"]
                /\ UNCHANGED <<state, connections, sessions, conn>>
           ELSE /\ state' = ForceStop(state, srv)
                /\ FailHandshake(s, "start_failed")
                /\ UNCHANGED <<alive, procStart>>
    /\ UNCHANGED <<hostVars, servers, serialize, crashes, now, pool, serverName, capabilities, idVars,
                   registryVars, queueVars, stdin, historyVars>>

\* ensureServerRunning: TransitionTo(next), an error ends the handshake.
EnsureTransition(s, at, next, after) ==
    /\ pc[s] = at
    /\ LET srv == serverName[s]
       IN  IF IsValidTransition(state[srv], next)
           THEN /\ state' = [state EXCEPT ![srv] = next]
                /\ pc' = [pc EXCEPT ![s] = after]
                /\ IF after = "loop"
                   THEN conn' = [conn EXCEPT ![s] =
                            Append(@, ConnLine(Envelope("connected", ""), "handshake", 0, 0))]
                   ELSE conn' = conn
                /\ UNCHANGED <<connections, sessions>>
           ELSE /\ state' = state
                /\ FailHandshake(s, "start_failed")
    /\ UNCHANGED <<hostVars, servers, serialize, crashes, alive, procStart, now, pool, serverName,
                   capabilities, idVars, registryVars, queueVars, stdin, historyVars>>

EnsureInitializing(s) == EnsureTransition(s, "toInit", "INITIALIZING", "toReady")

EnsureReady(s) == EnsureTransition(s, "toReady", "READY", "loop")

\* The monitor goroutine: the subprocess exits and Wait returns.
Crash(srv) ==
    /\ alive[srv]
    /\ alive' = [alive EXCEPT ![srv] = FALSE]
    /\ IF state[srv] # "STOPPED"
       THEN /\ crashes' = [crashes EXCEPT ![srv] = RecordCrash(@, now)]
            /\ state' = ForceStop(state, srv)
            /\ closedDone' = closedDone \cup serializeWaiters[srv]
            /\ serializeWaiters' = [serializeWaiters EXCEPT ![srv] = {}]
            /\ pendingInit' = [g \in {x \in DOMAIN pendingInit : pendingInit[x] # srv}
                                  |-> pendingInit[g]]
            /\ crashLog' = [crashLog EXCEPT ![srv] = Append(@, now)]
            /\ budgetHit' = [budgetHit EXCEPT ![srv] =
                   @ \/ Recent(Append(crashLog[srv], now), now) >= maxCrashes]
       ELSE UNCHANGED <<crashes, state, closedDone, serializeWaiters, pendingInit,
                        crashLog, budgetHit>>
    /\ UNCHANGED <<hostVars, servers, serialize, procStart, connections, now, sessionVars, idVars,
                   initCache, pendingFanout, aggs, progressTokens, subscriptions,
                   serializeQueue, worker, ioVars, emitted, requested, replied, declared, hello, auditVars,
                   nmsgs, limit, startLog>>

\* ManagedServer.ResetCrashes, the operator's explicit reset.
ResetCrashes(srv) ==
    /\ crashLog[srv] # << >>
    /\ crashes' = [crashes EXCEPT ![srv] = << >>]
    /\ crashLog' = [crashLog EXCEPT ![srv] = << >>]
    /\ budgetHit' = [budgetHit EXCEPT ![srv] = FALSE]
    /\ UNCHANGED <<hostVars, servers, serialize, state, alive, procStart, connections, now,
                   sessionVars, idVars, registryVars, queueVars, ioVars, emitted, requested,
                   replied, declared, hello, auditVars, nmsgs,
                   limit, startLog>>

\* Time passes.
Tick ==
    /\ now < MaxTime
    /\ now' = now + crashWindow \div 2
    /\ UNCHANGED <<hostVars, serverVars, sessionVars, idVars, registryVars, queueVars, ioVars,
                   historyVars>>

\* ------------------------------------------------------ roots aggregator

\* One entry of a roots array.
Root(uri, name) == [uri |-> uri, name |-> name]

\* handleRootsList's aggregator for the server's request serverID. asked, req,
\* replies, by and timer are history: the sessions addressed, the request's
\* place in requested, the results collected, what finalized the aggregator,
\* and whether the 5 s timer has fired.
rootsAggregator(serverID, srv, capable, req) ==
    [serverID |-> serverID, server |-> srv, remaining |-> Cardinality(capable),
     roots |-> << >>, done |-> FALSE,
     asked |-> capable, req |-> req, replies |-> << >>, by |-> "none", timer |-> FALSE]

\* rootsAggregator.collect: the aggregator after one session's result.
collect(a, result) ==
    IF a.done THEN a
    ELSE [a EXCEPT !.roots = @ \o (IF result.kind = "roots" THEN result.roots ELSE << >>),
                   !.remaining = @ - 1]

\* rootsAggregator.collect's return value: all sessions responded.
collectAllDone(a, result) == ~a.done /\ a.remaining - 1 <= 0

RECURSIVE MutDedupNone(_, _)
MutDedupNone(rs, seen) == rs

\* rootsAggregator.finalize: the roots, the first of each uri kept.
RECURSIVE Dedup(_, _)
Dedup(rs, seen) ==
    IF rs = << >> THEN << >>
    ELSE IF Head(rs).uri \in seen THEN Dedup(Tail(rs), seen)
    ELSE <<Head(rs)>> \o Dedup(Tail(rs), seen \cup {Head(rs).uri})

MutFinalizeAlways(a) == TRUE

\* rootsAggregator.finalize goes past its early return: done was not set.
finalizeRuns(a) == ~a.done

\* rootsAggregator.finalize: the response written to the server.
finalizeResponse(a) ==
    Serialize(Message(a.serverID, "", NoParams, RootsResult(Dedup(a.roots, {})), ""))

\* ------------------------------------------------------- shim-facing loop

\* ManagedServer.WriteToStdin: the line reaches the pipe of a running subprocess;
\* with no subprocess the write returns an error and nothing is written.
WriteToStdin(in, srv, line) ==
    IF alive[srv] THEN [in EXCEPT ![srv] = Append(@, line)] ELSE in

loopVars ==
    <<capabilities, conn, stdin, counter, mappings, issued, issueLog, pendingInit,
      pendingFanout, aggs, progressTokens, subscriptions, serializeQueue,
      serializeWaiters, closedDone>>

\* A reply the daemon synthesizes, as marshalled for the connection.
DirectReply(id, result) == Serialize(Message(id, "", NoParams, result, ""))

\* sessionLoop, a response from the session: a fan-out reply goes to its
\* aggregator, any other response is forwarded to the server verbatim.
ShimResponse(s, msg) ==
    LET srv == serverName[s]
    IN  IF IsUint(msg.id) /\ ParseUint(msg.id) \in DOMAIN pendingFanout
        THEN LET f == ParseUint(msg.id)
                 k == pendingFanout[f]
                 a == aggs[k]
                 fin == collectAllDone(a, msg.result)
                 a2 == collect(a, msg.result)
             IN  /\ pendingFanout' = Remove(pendingFanout, f)
                 /\ aggs' = [aggs EXCEPT ![k] =
                        [a2 EXCEPT !.done = @ \/ fin,
                                   !.replies = Append(@, msg.result),
                                   !.by = IF fin THEN "reply" ELSE @]]
                 /\ stdin' = IF fin
                             THEN WriteToStdin(stdin, a.server, StdinLine(finalizeResponse(a2), 0))
                             ELSE stdin
                 /\ UNCHANGED <<capabilities, conn, counter, mappings, issued, issueLog,
                                pendingInit, progressTokens, subscriptions,
                                serializeQueue, serializeWaiters, closedDone>>
        ELSE /\ stdin' = WriteToStdin(stdin, srv, StdinLine(msg, s))
             /\ UNCHANGED <<capabilities, conn, counter, mappings, issued, issueLog,
                            pendingInit, pendingFanout, aggs, progressTokens,
                            subscriptions, serializeQueue, serializeWaiters, closedDone>>

\* sessionLoop, initialize with a cached result: store the capabilities, answer
\* from the cache under the session's own id, and continue with the next line.
CachedInitialize(s, msg) ==
    /\ capabilities' = [capabilities EXCEPT ![s] = ParseClientCapabilities(msg.params)]
    /\ conn' = [conn EXCEPT ![s] =
           Append(@, ConnLine(DirectReply(msg.id, initCache[serverName[s]]), "cache", 0, 0))]
    /\ UNCHANGED <<stdin, counter, mappings, issued, issueLog, pendingInit, pendingFanout,
                   aggs, progressTokens, subscriptions, serializeQueue, serializeWaiters,
                   closedDone>>

MutInitCacheHit(srv) == FALSE

\* d.initCache.Get(session.ServerName) returned ok.
InitCacheHit(srv) == initCache[srv] # NoResult

\* sessionLoop from "Remap request ID and forward to server" to the end.
Forward(s, msg) ==
    LET srv == serverName[s]
        g == NextGlobal(counter)
        out == Serialize(IF IsRequest(msg) THEN [msg EXCEPT !.id = FormatUint(g)] ELSE msg)
    IN  /\ IF IsRequest(msg)
           THEN /\ counter' = g
                /\ mappings' = MapInsert(mappings, g, msg.id, s, now)
                /\ issued' = Put(issued, g, [OriginalID |-> msg.id, SessionID |-> s])
                /\ issueLog' = Append(issueLog, g)
           ELSE UNCHANGED <<counter, mappings, issued, issueLog>>
        /\ pendingInit' = IF isInitializeRequest(msg) THEN Put(pendingInit, g, srv)
                          ELSE pendingInit
        /\ IF serialize[srv] /\ IsRequest(msg)
           THEN /\ serializeWaiters' = [serializeWaiters EXCEPT ![srv] = @ \cup {g}]
                /\ serializeQueue' = [serializeQueue EXCEPT ![srv] =
                       Append(@, [gid |-> g, line |-> StdinLine(out, s)])]
                /\ stdin' = stdin
           ELSE /\ stdin' = WriteToStdin(stdin, srv, StdinLine(out, s))
                /\ UNCHANGED <<serializeWaiters, serializeQueue>>
        /\ UNCHANGED <<conn, pendingFanout, aggs, closedDone>>

\* handleCancellation: requestId is rewritten to the global id when the mapper
\* still holds the request, and the notification is written to stdin.
handleCancellation(s, msg) ==
    /\ IF msg.params.requestId = NoID
       THEN stdin' = stdin
       ELSE LET found == FindGlobalIDs(mappings, msg.params.requestId, s)
            IN  \E g \in (IF found = {} THEN {0} ELSE found) :
                    stdin' = WriteToStdin(stdin, serverName[s], StdinLine(
                        Serialize(IF found = {} THEN msg
                                  ELSE [msg EXCEPT !.params.requestId = FormatUint(g)]), s))
    /\ UNCHANGED <<conn, counter, mappings, issued, issueLog, pendingInit, pendingFanout,
                   aggs, serializeQueue, serializeWaiters, closedDone>>

\* The count Subscribe and Unsubscribe return: the size of the uri's session set.
SubscriberCount(subs, uri) == Cardinality(subs[uri])

\* sessionLoop past the initialize and initialized interceptions.
Route(s, msg) ==
    LET init == isInitializeRequest(msg)
        m1 == IF init THEN rewriteInitCapabilities(msg) ELSE msg
        uri == msg.params.uri
        sub == isSubscribeRequest(msg) /\ uri # ""
        unsub == isUnsubscribeRequest(msg) /\ uri # ""
        subs1 == IF sub THEN Subscribe(subscriptions, uri, s)
                 ELSE IF unsub THEN Unsubscribe(subscriptions, uri, s)
                 ELSE subscriptions
        direct == \/ sub /\ SubscriberCount(subs1, uri) > 1
                  \/ unsub /\ SubscriberCount(subs1, uri) > 0
    IN  /\ capabilities' = IF init
                           THEN [capabilities EXCEPT ![s] = ParseClientCapabilities(msg.params)]
                           ELSE capabilities
        /\ progressTokens' = IF IsRequest(msg) /\ ExtractProgressToken(msg).ok
                             THEN Put(progressTokens, ExtractProgressToken(msg).token, s)
                             ELSE progressTokens
        /\ subscriptions' = subs1
        /\ IF direct
           THEN /\ conn' = [conn EXCEPT ![s] =
                       Append(@, ConnLine(DirectReply(msg.id, EmptyObject), "direct", 0, 0))]
                /\ UNCHANGED <<stdin, counter, mappings, issued, issueLog, pendingInit,
                               pendingFanout, aggs, serializeQueue, serializeWaiters,
                               closedDone>>
           ELSE IF isCancellationNotification(msg)
           THEN handleCancellation(s, msg)
           ELSE Forward(s, m1)

\* The server's result for an initialize of session s is on s's connection.
InitializeAnswered(s) ==
    \E i \in DOMAIN conn[s] :
        /\ conn[s][i].path = "response"
        /\ conn[s][i].msg.result # NoResult
        /\ isInitializeRequest(stdin[serverName[s]][conn[s][i].idx].msg)

\* One iteration of sessionLoop: a line is read from the session and handled.
LoopStep(s, msg) ==
    /\ pc[s] = "loop"
    /\ handshook' = IF isInitializedNotification(msg) /\ InitializeAnswered(s)
                    THEN handshook \cup {s}
                    ELSE handshook
    /\ asked' = IF IsRequest(msg) /\ ExtractProgressToken(msg).ok
                THEN [asked EXCEPT ![s] = @ \cup {ExtractProgressToken(msg).token}]
                ELSE asked
    /\ UNCHANGED fineVars
    /\ declared' = IF isInitializeRequest(msg)
                   THEN [declared EXCEPT ![s] = msg.params.capabilities]
                   ELSE declared
    /\ IF IsResponse(msg)
       THEN ShimResponse(s, msg)
       ELSE IF isInitializeRequest(msg) /\ InitCacheHit(serverName[s])
       THEN CachedInitialize(s, msg)
       ELSE IF isInitializedNotification(msg) /\ InitCacheHit(serverName[s])
       THEN UNCHANGED loopVars
       ELSE Route(s, msg)
    /\ UNCHANGED <<hostVars, serverVars, now, pool, sessions, pc, serverName, initCache, worker,
                   emitted, requested, hello, limit, startLog, crashLog, budgetHit>>

\* The session sends a line of its own.
SessionLoop(s, msg) ==
    /\ nmsgs < limit
    /\ nmsgs' = nmsgs + 1
    /\ LoopStep(s, msg)
    /\ UNCHANGED replied

\* sessionLoop for a subscribe or unsubscribe request, up to the refcount
\* decision: the tracker is updated under its own mutex; a request that is not
\* to be forwarded is answered at once, one that is to be forwarded is written
\* by a later step of the same goroutine.
SubscribeDecide(s, msg) ==
    LET uri == msg.params.uri
        sub == isSubscribeRequest(msg) /\ uri # ""
        unsub == isUnsubscribeRequest(msg) /\ uri # ""
        subs1 == IF sub THEN Subscribe(subscriptions, uri, s)
                 ELSE Unsubscribe(subscriptions, uri, s)
        direct == \/ sub /\ SubscriberCount(subs1, uri) > 1
                  \/ unsub /\ SubscriberCount(subs1, uri) > 0
    IN  /\ pc[s] = "loop"
        /\ held[s] = NoHeld
        /\ sub \/ unsub
        /\ nmsgs < limit
        /\ nmsgs' = nmsgs + 1
        /\ subscriptions' = subs1
        /\ IF direct
           THEN /\ conn' = [conn EXCEPT ![s] =
                       Append(@, ConnLine(DirectReply(msg.id, EmptyObject), "direct", 0, 0))]
                /\ held' = held
           ELSE /\ held' = [held EXCEPT ![s] = msg]
                /\ conn' = conn
        /\ UNCHANGED <<mu, sqVars>>
        /\ UNCHANGED <<hostVars, serverVars, now, sessionVars, idVars, initCache, pendingInit,
                       pendingFanout, aggs, progressTokens, queueVars, stdin, emitted,
                       requested, replied, declared, hello, handshook, asked, limit,
                       startLog, crashLog, budgetHit>>

\* The rest of that iteration: the id is remapped and the line written.
SubscribeWrite(s) ==
    /\ pc[s] = "loop"
    /\ held[s] # NoHeld
    /\ Forward(s, held[s])
    /\ held' = [held EXCEPT ![s] = NoHeld]
    /\ UNCHANGED <<mu, sqVars>>
    /\ UNCHANGED <<hostVars, serverVars, now, sessionVars, capabilities, initCache,
                   progressTokens, subscriptions, worker, emitted, requested, replied,
                   declared, hello, handshook, asked, nmsgs, limit, startLog, crashLog,
                   budgetHit>>

\* What a session may answer to a request the daemon wrote to its connection.
ReplyBodies(method) ==
    IF method = "roots/list"
    THEN {[result |-> RootsResult(<<Root("file:///a", "n1"), Root("file:///b", "n1")>>),
           error |-> ""],
          [result |-> RootsResult(<<Root("file:///a", "n2")>>), error |-> ""]}
    ELSE {[result |-> Value("r2"), error |-> ""]}

\* The session answers line i of its connection, a request, under that line's id;
\* sessionLoop reads the answer.
SessionReply(s, i, body) ==
    /\ i \in DOMAIN conn[s]
    /\ IsRequest(conn[s][i].msg)
    /\ \A r \in replied : r.session # s \/ r.line # i
    /\ body \in ReplyBodies(conn[s][i].msg.method)
    /\ replied' = replied \cup {[session |-> s, line |-> i, result |-> body.result]}
    /\ nmsgs' = nmsgs
    /\ LoopStep(s, Message(conn[s][i].msg.id, "", NoParams, body.result, body.error))

\* The session's connection closes: sessionLoop returns and handleConnection
\* unregisters the session, purges its progress tokens and subscriptions, and
\* sends resources/unsubscribe for every uri it was the last subscriber of.
RECURSIVE UnsubscribeAll(_, _, _, _)
UnsubscribeAll(in, srv, uris, cnt) ==
    IF uris = << >> THEN in
    ELSE UnsubscribeAll(
             WriteToStdin(in, srv, StdinLine(
                 Message(FormatUint(NextID(cnt)), "resources/unsubscribe",
                         [NoParams EXCEPT !.uri = Head(uris)], NoResult, ""), 0)),
             srv, Tail(uris), NextID(cnt))

RECURSIVE IssueAll(_, _, _)
IssueAll(log, n, cnt) == IF n = 0 THEN log ELSE IssueAll(Append(log, NextID(cnt)), n - 1, NextID(cnt))

RECURSIVE CountAll(_, _)
CountAll(n, cnt) == IF n = 0 THEN cnt ELSE CountAll(n - 1, NextID(cnt))

Orders(S) == {q \in [1..Cardinality(S) -> S] : \A x \in S : \E i \in DOMAIN q : q[i] = x}

Disconnect(s) ==
    /\ pc[s] = "loop"
    /\ pc' = [pc EXCEPT ![s] = "closed"]
    /\ connections' = [connections EXCEPT ![serverName[s]] = @ \ {s}]
    /\ sessions' = sessions \ {s}
    /\ progressTokens' = [k \in {x \in DOMAIN progressTokens : progressTokens[x] # s}
                             |-> progressTokens[k]]
    /\ subscriptions' = RemoveSession(subscriptions, s)
    /\ \E ord \in Orders(Orphaned(subscriptions, s)) :
           /\ stdin' = UnsubscribeAll(stdin, serverName[s], ord, counter)
           /\ counter' = CountAll(Len(ord), counter)
           /\ issueLog' = IssueAll(issueLog, Len(ord), counter)
    /\ UNCHANGED <<hostVars, servers, serialize, state, crashes, alive, procStart, now, pool,
                   serverName, capabilities, mappings, issued, initCache, pendingInit,
                   pendingFanout, aggs, queueVars, conn, historyVars>>

\* -------------------------------------------------- server-facing dispatcher

\* SignalSerializeWaiter: the waiter registered under g, if any, is removed.
SignalSerializeWaiter(waiters, g) == waiters \ {g}

MutDispatchResponseRouted(msg, srv, owner, idx) ==
    LET parsed == IsUint(msg.id)
        rawGlobalID == IF parsed THEN ParseUint(msg.id) ELSE 0
        isInitResp == parsed /\ rawGlobalID \in DOMAIN pendingInit
        mapped == parsed /\ rawGlobalID \in DOMAIN mappings
        sessionID == mappings[rawGlobalID].SessionID
    IN  /\ pendingInit' = IF isInitResp THEN Remove(pendingInit, rawGlobalID) ELSE pendingInit
        /\ initCache' = IF isInitResp /\ msg.result # NoResult
                        THEN [initCache EXCEPT ![pendingInit[rawGlobalID]] = msg.result]
                        ELSE initCache
        /\ mappings' = IF mapped THEN Unmap(mappings, rawGlobalID) ELSE mappings
        /\ conn' = IF mapped /\ sessionID \in sessions
                   THEN [conn EXCEPT ![sessionID] = Append(@, ConnLine(
                            Serialize([msg EXCEPT !.id = mappings[rawGlobalID].OriginalID]),
                            "response", owner, idx))]
                   ELSE conn
        /\ serializeWaiters' = [serializeWaiters EXCEPT ![srv] =
               IF mapped /\ sessionID \in sessions
               THEN SignalSerializeWaiter(@, rawGlobalID)
               ELSE @]
        /\ closedDone' = closedDone \cup (serializeWaiters[srv] \ serializeWaiters'[srv])

\* dispatchResponse for a response line read from srv's stdout. owner and idx
\* are history: the session whose request the server answered with this line,
\* and the stdin line of that request.
dispatchResponse(msg, srv, owner, idx) ==
    LET parsed == IsUint(msg.id)
        rawGlobalID == IF parsed THEN ParseUint(msg.id) ELSE 0
        isInitResp == parsed /\ rawGlobalID \in DOMAIN pendingInit
        mapped == parsed /\ rawGlobalID \in DOMAIN mappings
        sessionID == mappings[rawGlobalID].SessionID
    IN  /\ pendingInit' = IF isInitResp THEN Remove(pendingInit, rawGlobalID) ELSE pendingInit
        /\ initCache' = IF isInitResp /\ msg.result # NoResult
                        THEN [initCache EXCEPT ![pendingInit[rawGlobalID]] = msg.result]
                        ELSE initCache
        /\ mappings' = IF mapped THEN Unmap(mappings, rawGlobalID) ELSE mappings
        /\ conn' = IF mapped /\ sessionID \in sessions
                   THEN [conn EXCEPT ![sessionID] = Append(@, ConnLine(
                            Serialize([msg EXCEPT !.id = mappings[rawGlobalID].OriginalID]),
                            "response", owner, idx))]
                   ELSE conn
        /\ serializeWaiters' = [serializeWaiters EXCEPT ![srv] =
               SignalSerializeWaiter(@, rawGlobalID)]
        /\ closedDone' = closedDone \cup (serializeWaiters[srv] \ serializeWaiters'[srv])

\* What a server may answer to a request.
ServerBodies == {[result |-> Value("r1"), error |-> ""], [result |-> NoResult, error |-> "e1"]}

Answered(srv) == {e.idx : e \in {x \in emitted : x.server = srv}}

\* The subprocess answers a request it has read from its stdin; the reader
\* goroutine, which lives as long as the daemon, parses the line and dispatches it.
ServerRespond(srv, i, body) ==
    /\ listener # "down"
    /\ alive[srv]
    /\ i \in (procStart[srv] + 1)..Len(stdin[srv])
    /\ IsRequest(stdin[srv][i].msg)
    /\ i \notin Answered(srv)
    /\ LET msg == Message(stdin[srv][i].msg.id, "", NoParams, body.result, body.error)
       IN  /\ emitted' = emitted \cup
                  {[server |-> srv, idx |-> i, msg |-> msg, live |-> sessions]}
           /\ dispatchResponse(msg, srv, stdin[srv][i].from, i)
    /\ UNCHANGED <<hostVars, serverVars, now, sessionVars, counter, issued, issueLog, pendingFanout,
                   aggs, progressTokens, subscriptions, serializeQueue, worker, stdin,
                   requested, replied, declared, hello, auditVars, nmsgs, limit, startLog, crashLog, budgetHit>>

\* ClassifyServerMessage: the class dispatchServerMessage switches on.
ClassifyServerMessage(msg) ==
    IF IsResponse(msg) THEN "Response"
    ELSE CASE msg.method = "notifications/progress" -> "Progress"
           [] msg.method = "notifications/resources/updated" -> "ResourceUpdated"
           [] msg.method \in {"notifications/tools/list_changed",
                              "notifications/resources/list_changed",
                              "notifications/prompts/list_changed"} -> "Broadcast"
           [] msg.method = "ping" -> "Ping"
           [] msg.method \in {"roots/list", "sampling/createMessage"} -> "ServerRequest"
           [] OTHER -> "Broadcast"

\* A JSON-RPC error response as marshalled; the error object is its code.
ErrorResponse(id, code) == Serialize(Message(id, "", NoParams, NoResult, code))

MethodNotFound == "-32601 method not found"

NoSamplingClient == "-32601 no connected client supports sampling"

\* sessionsForServer: the registered sessions whose ServerName is srv.
sessionsForServer(srv) == {s \in sessions : serverName[s] = srv}

\* broadcastToSessions: the line is written to every session of the server.
\* r is history: the place of the server's message in requested.
broadcastToSessions(msg, srv, r) ==
    /\ conn' = [s \in SessionIDs |->
                   IF s \in sessionsForServer(srv)
                   THEN Append(conn[s], ConnLine(Serialize(msg), "broadcast", 0, r))
                   ELSE conn[s]]
    /\ UNCHANGED <<stdin, counter, issueLog, pendingFanout, aggs>>

\* dispatchProgress: the notification goes to the session the token table
\* names, when that session is registered; the server is not looked at.
dispatchProgress(msg, r) ==
    LET raw == msg.params.progressToken
        token == TokenKey(raw)
        ok == raw \in ProgressTokenForms /\ token \in DOMAIN progressTokens
    IN  /\ conn' = IF ok /\ progressTokens[token] \in sessions
                   THEN [conn EXCEPT ![progressTokens[token]] =
                            Append(@, ConnLine(Serialize(msg), "progress", 0, r))]
                   ELSE conn
        /\ UNCHANGED <<stdin, counter, issueLog, pendingFanout, aggs>>

\* SubscriptionTracker.Subscribers.
Subscribers(subs, uri) == IF uri \in DOMAIN subs THEN subs[uri] ELSE {}

\* dispatchResourceUpdate: the notification goes to the registered sessions
\* subscribed to its uri.
dispatchResourceUpdate(msg, srv, r) ==
    /\ conn' = [s \in SessionIDs |->
                   IF msg.params.uri # "" /\ s \in Subscribers(subscriptions, msg.params.uri) \cap sessions
                   THEN Append(conn[s], ConnLine(Serialize(msg), "update", 0, r))
                   ELSE conn[s]]
    /\ UNCHANGED <<stdin, counter, issueLog, pendingFanout, aggs>>

\* respondToPing: the daemon answers itself, no session sees the ping.
respondToPing(msg, srv) ==
    /\ stdin' = WriteToStdin(stdin, srv, StdinLine(DirectReply(msg.id, EmptyObject), 0))
    /\ UNCHANGED <<conn, counter, issueLog, pendingFanout, aggs>>

MutRootsCapableAll(srv) == sessionsForServer(srv)

\* handleRootsList: the sessions of the server that support roots.
RootsCapable(srv) == {s \in sessionsForServer(srv) : capabilities[s].roots}

MutSamplingCapableAll(srv) == sessionsForServer(srv)

\* handleSampling: the sessions of the server that support sampling.
SamplingCapable(srv) == {s \in sessionsForServer(srv) : capabilities[s].sampling}

\* handleRootsList's loop over the capable sessions, in the order ord: each
\* gets a fresh id from the counter, registered in pendingFanout for aggregator k.
RECURSIVE FanoutIDs(_, _)
FanoutIDs(n, cnt) == IF n = 0 THEN << >> ELSE <<NextID(cnt)>> \o FanoutIDs(n - 1, NextID(cnt))

\* handleRootsList.
handleRootsList(msg, srv, r) ==
    LET capable == RootsCapable(srv)
        k == Len(aggs) + 1
    IN  IF capable = {}
        THEN /\ stdin' = WriteToStdin(stdin, srv,
                             StdinLine(DirectReply(msg.id, RootsResult(<< >>)), 0))
             /\ UNCHANGED <<conn, counter, issueLog, pendingFanout, aggs>>
        ELSE \E ord \in Orders(capable) :
                 LET ids == FanoutIDs(Len(ord), counter)
                 IN  /\ aggs' = Append(aggs, rootsAggregator(msg.id, srv, capable, r))
                     /\ counter' = CountAll(Len(ord), counter)
                     /\ issueLog' = IssueAll(issueLog, Len(ord), counter)
                     /\ pendingFanout' =
                            [f \in DOMAIN pendingFanout \cup {ids[j] : j \in DOMAIN ids} |->
                                IF f \in {ids[j] : j \in DOMAIN ids} THEN k
                                ELSE pendingFanout[f]]
                     /\ conn' = [s \in SessionIDs |->
                            IF s \in capable
                            THEN LET j == CHOOSE x \in DOMAIN ord : ord[x] = s
                                 IN  Append(conn[s], ConnLine(
                                         Serialize(Request(FormatUint(ids[j]), "roots/list")),
                                         "fanout", 0, k))
                            ELSE conn[s]]
                     /\ stdin' = stdin

\* handleSampling: the request goes to one capable session with the server's id.
handleSampling(msg, srv, r) ==
    /\ IF SamplingCapable(srv) = {}
       THEN /\ stdin' = WriteToStdin(stdin, srv,
                            StdinLine(ErrorResponse(msg.id, NoSamplingClient), 0))
            /\ conn' = conn
       ELSE /\ \E target \in SamplingCapable(srv) :
                   conn' = [conn EXCEPT ![target] =
                               Append(@, ConnLine(Serialize(msg), "sampling", 0, r))]
            /\ stdin' = stdin
    /\ UNCHANGED <<counter, issueLog, pendingFanout, aggs>>

\* handleServerRequest.
handleServerRequest(msg, srv, r) ==
    IF msg.method = "roots/list" THEN handleRootsList(msg, srv, r)
    ELSE IF msg.method = "sampling/createMessage" THEN handleSampling(msg, srv, r)
    ELSE /\ stdin' = WriteToStdin(stdin, srv,
                         StdinLine(ErrorResponse(msg.id, MethodNotFound), 0))
         /\ UNCHANGED <<conn, counter, issueLog, pendingFanout, aggs>>

\* dispatchServerMessage for a request or notification read from srv's stdout.
dispatchServerMessage(msg, srv, r) ==
    LET class == ClassifyServerMessage(msg)
    IN  IF class = "Progress" THEN dispatchProgress(msg, r)
        ELSE IF class = "ResourceUpdated" THEN dispatchResourceUpdate(msg, srv, r)
        ELSE IF class = "Ping" THEN respondToPing(msg, srv)
        ELSE IF class = "ServerRequest" THEN handleServerRequest(msg, srv, r)
        ELSE broadcastToSessions(msg, srv, r)

\* The subprocess emits a request or notification of its own, at most max in
\* a run; the reader goroutine parses the line and dispatches it.
ServerEmit(srv, msg, max) ==
    /\ listener # "down"
    /\ alive[srv]
    /\ Len(requested) < max
    /\ requested' = Append(requested, [server |-> srv, msg |-> msg, at |-> Len(stdin[srv])])
    /\ dispatchServerMessage(msg, srv, Len(requested) + 1)
    /\ UNCHANGED <<hostVars, serverVars, now, sessionVars, mappings, issued, initCache,
                   pendingInit, progressTokens, subscriptions, queueVars, emitted,
                   replied, declared, hello, auditVars, nmsgs, limit, startLog, crashLog, budgetHit>>

\* The 5 s timer of handleRootsList fires and calls finalize.
RootsTimer(k) ==
    /\ k \in DOMAIN aggs
    /\ ~aggs[k].timer
    /\ aggs' = [aggs EXCEPT ![k] = [@ EXCEPT !.timer = TRUE, !.done = TRUE,
                                             !.by = IF aggs[k].done THEN @ ELSE "timer"]]
    /\ stdin' = IF finalizeRuns(aggs[k])
                THEN WriteToStdin(stdin, aggs[k].server, StdinLine(finalizeResponse(aggs[k]), 0))
                ELSE stdin
    /\ UNCHANGED <<hostVars, serverVars, now, sessionVars, idVars, initCache, pendingInit,
                   pendingFanout, progressTokens, subscriptions, queueVars, conn,
                   historyVars>>

\* ------------------------------------------------------------- shutdown

\* SIGTERM or a cancelled context: Run's goroutine closes the listener.
Cancel ==
    /\ listener = "open"
    /\ listener' = "closed"
    /\ UNCHANGED <<cfgFile, fileErr, cfg, config, files, serverVars, now, sessionVars,
                   idVars, registryVars, queueVars, ioVars, historyVars>>

\* CloseSerializeQueue, for every server: the waiters' channels are closed.
CloseSerializeQueue(waiters) == [n \in ServerNames |-> {}]

\* Accept fails on the closed listener and Run calls shutdown: every registered
\* session's connection is closed, the pending maps are reset, the serialize
\* queues are closed, the socket and PID files are removed; Run returns.
Shutdown ==
    /\ listener = "closed"
    /\ listener' = "down"
    /\ pc' = [s \in SessionIDs |-> IF s \in sessions THEN "closed" ELSE pc[s]]
    /\ pendingInit' = Empty
    /\ pendingFanout' = Empty
    /\ serializeWaiters' = CloseSerializeQueue(serializeWaiters)
    /\ closedDone' = closedDone \cup UNION {serializeWaiters[n] : n \in ServerNames}
    /\ files' = files \ {"socket", "pid"}
    /\ UNCHANGED <<cfgFile, fileErr, cfg, config, serverVars, now, pool, sessions, serverName, capabilities, idVars,
                   initCache, aggs, progressTokens, subscriptions, serializeQueue, worker,
                   ioVars, historyVars>>

\* ------------------------------------------------------ serialization queue

\* processLoop takes the head entry and runs it: the write to stdin, then the
\* wait on the entry's done channel; a failed write releases the waiter.
WorkerTake(srv) ==
    /\ worker[srv] = 0
    /\ serializeQueue[srv] # << >>
    /\ LET entry == Head(serializeQueue[srv])
       IN  /\ serializeQueue' = [serializeQueue EXCEPT ![srv] = Tail(@)]
           /\ IF alive[srv]
              THEN /\ stdin' = [stdin EXCEPT ![srv] = Append(@, entry.line)]
                   /\ worker' = [worker EXCEPT ![srv] = entry.gid]
                   /\ UNCHANGED <<serializeWaiters, closedDone>>
              ELSE /\ serializeWaiters' = [serializeWaiters EXCEPT ![srv] = @ \ {entry.gid}]
                   /\ closedDone' = closedDone \cup ({entry.gid} \cap serializeWaiters[srv])
                   /\ UNCHANGED <<stdin, worker>>
    /\ UNCHANGED <<hostVars, serverVars, now, sessionVars, idVars, registryVars, conn, historyVars>>

\* The done channel the worker blocks on has been closed: the entry returns.
WorkerWake(srv) ==
    /\ worker[srv] # 0
    /\ worker[srv] \in closedDone
    /\ worker' = [worker EXCEPT ![srv] = 0]
    /\ UNCHANGED <<hostVars, serverVars, now, sessionVars, idVars, registryVars, serializeQueue,
                   serializeWaiters, closedDone, ioVars, historyVars>>

\* ------------------------------------------------------------ what shims send

\* What the sessions send in each specification.
IdInputs ==
    {Request(Int1, "tools/list"),
     ResourceRequest(StrLt1Gt, "resources/subscribe", "file:///x")}

InitInputs ==
    {InitializeRequest(Int1, {}), InitializeRequest(Int2, {"roots"}),
     Notification("initialized")}

SubInputs ==
    {ResourceRequest(Int2, m, u) :
        m \in {"resources/subscribe", "resources/unsubscribe"}, u \in URIs}

SerInputs == {Request(Int1, "tools/list")}

RootsInputs == {InitializeRequest(Int1, {"roots"})}

\* The next request of a server, which numbers its requests itself.
ServerRequestOf(method) == Request(FormatUint(Len(requested) + 1), method)

\* ------------------------------------------------------------ specifications

\* Handshakes; oks says whether spawning the subprocess can fail.
Connecting(oks) ==
    \/ \E s \in SessionIDs, srv \in ServerNames : Handshake(s, srv)
    \/ \E s \in SessionIDs : EnsureStart(s)
    \/ \E s \in SessionIDs, ok \in oks : Spawn(s, ok)
    \/ \E s \in SessionIDs : EnsureInitializing(s)
    \/ \E s \in SessionIDs : EnsureReady(s)

\* Sessions send lines from inputs, the server answers, sessions disconnect.
Routing(inputs) ==
    \/ \E s \in SessionIDs, msg \in inputs : SessionLoop(s, msg)
    \/ \E srv \in ServerNames, i \in 1..MaxLines, body \in ServerBodies :
           ServerRespond(srv, i, body)
    \/ \E s \in SessionIDs : Disconnect(s)

Next == Connecting({TRUE}) \/ Routing(IdInputs)

Spec == Init /\ [][Next]_vars

NextInit == Connecting({TRUE}) \/ Routing(InitInputs)

SpecInit == Init /\ [][NextInit]_vars

NextSub == Connecting({TRUE}) \/ Routing(SubInputs)

SpecSub == Init /\ [][NextSub]_vars

NextSer ==
    \/ Connecting({TRUE})
    \/ Routing(SerInputs)
    \/ \E srv \in ServerNames : WorkerTake(srv)
    \/ \E srv \in ServerNames : WorkerWake(srv)
    \/ \E srv \in ServerNames : Crash(srv)

InitSer == InitWith(TRUE, RouteSessions, MaxSerMsgs)

SpecSer == InitSer /\ [][NextSer]_vars

NextLife ==
    \/ Connecting(BOOLEAN)
    \/ \E srv \in ServerNames : Crash(srv)
    \/ \E srv \in ServerNames : ResetCrashes(srv)
    \/ Tick

SpecLife == InitLife /\ [][NextLife]_vars

OrderInputs == {Request(Int1, "tools/list"), Notification("notifications/roots/list_changed")}

\* One server, configured with serialize=false or serialize=true.
InitOrder == \E ser \in BOOLEAN : InitWith(ser, RouteSessions, MaxSerMsgs)

\* Sessions send requests and notifications; the queue worker of a
\* serialize=true server writes the requests.
NextOrder ==
    \/ Connecting({TRUE})
    \/ Routing(OrderInputs)
    \/ \E srv \in ServerNames : WorkerTake(srv)
    \/ \E srv \in ServerNames : WorkerWake(srv)

SpecOrder == InitOrder /\ [][NextOrder]_vars

\* Servers emit requests of the given methods; sessions answer what they are asked.
Asking(methods, max) ==
    \/ \E srv \in ServerNames, method \in methods :
           ServerEmit(srv, ServerRequestOf(method), max)
    \/ \E s \in SessionIDs, i \in 1..MaxLines,
          body \in ReplyBodies("roots/list") \cup ReplyBodies("") : SessionReply(s, i, body)

\* handleRootsList with capable sessions, up to d.mu.Lock(): the reader
\* goroutine of srv has parsed the server's roots/list, made the aggregator
\* and holds the daemon lock.
FanLock(srv, max) ==
    LET msg == ServerRequestOf("roots/list")
        capable == RootsCapable(srv)
        r == Len(requested) + 1
    IN  /\ listener # "down"
        /\ alive[srv]
        /\ Len(requested) < max
        /\ mu = NoMu
        /\ capable # {}
        /\ requested' = Append(requested, [server |-> srv, msg |-> msg, at |-> Len(stdin[srv])])
        /\ aggs' = Append(aggs, rootsAggregator(msg.id, srv, capable, r))
        /\ \E ord \in Orders(capable) :
               mu' = [holder |-> srv, todo |-> ord, k |-> Len(aggs) + 1]
        /\ UNCHANGED <<hostVars, serverVars, now, sessionVars, idVars, initCache, pendingInit,
                       pendingFanout, progressTokens, subscriptions, queueVars, ioVars,
                       emitted, replied, declared, hello, handshook, asked, held, sqVars, nmsgs,
                       limit, startLog, crashLog, budgetHit>>

\* One iteration of the loop inside the lock: NextID, pendingFanout and
\* s.WriteLine.
FanWrite ==
    /\ mu # NoMu
    /\ mu.todo # << >>
    /\ LET s == Head(mu.todo)
           id == NextID(counter)
       IN  /\ counter' = id
           /\ issueLog' = Append(issueLog, id)
           /\ pendingFanout' = Put(pendingFanout, id, mu.k)
           /\ conn' = [conn EXCEPT ![s] = Append(@, ConnLine(
                          Serialize(Request(FormatUint(id), "roots/list")), "fanout", 0, mu.k))]
           /\ mu' = [mu EXCEPT !.todo = Tail(@)]
    /\ UNCHANGED <<hostVars, serverVars, now, sessionVars, mappings, issued, initCache,
                   pendingInit, aggs, progressTokens, subscriptions, queueVars, stdin,
                   emitted, requested, replied, declared, hello, handshook, asked, held,
                   sqVars, nmsgs, limit, startLog, crashLog, budgetHit>>

\* d.mu.Unlock() after the loop.
FanUnlock ==
    /\ mu # NoMu
    /\ mu.todo = << >>
    /\ mu' = NoMu
    /\ UNCHANGED <<hostVars, serverVars, now, sessionVars, idVars, registryVars, queueVars,
                   ioVars, emitted, requested, replied, declared, hello, handshook, asked,
                   held, sqVars, nmsgs, limit, startLog, crashLog, budgetHit>>

\* Each session sends at most its initialize.
InitRoots == InitWith(FALSE, RouteSessions, Cardinality(RouteSessions))

NextRoots ==
    \/ Connecting({TRUE})
    \/ \E s \in SessionIDs, msg \in RootsInputs : SessionLoop(s, msg)
    \/ \E s \in SessionIDs : Disconnect(s)
    \/ Asking({"roots/list"}, MaxServerReqs)
    \/ \E k \in 1..MaxServerReqs : RootsTimer(k)

SpecRoots == InitRoots /\ [][NextRoots]_vars

FanInputs == {InitializeRequest(Int1, {"roots", "sampling"})}

FanMethods == {"roots/list", "sampling/createMessage"}

\* One server; it asks for roots and for sampling, one request more than in
\* SpecRoots.
NextFan ==
    \/ Connecting({TRUE})
    \/ \E s \in SessionIDs, msg \in FanInputs : SessionLoop(s, msg)
    \/ \E s \in SessionIDs : Disconnect(s)
    \/ Asking(FanMethods, MaxServerReqs + 1)
    \/ \E k \in 1..MaxServerReqs + 1 : RootsTimer(k)

SpecFan == InitRoots /\ [][NextFan]_vars

OtherMethods == {"ping", "elicitation/create"}

\* One server; it pings and emits a request of a method the daemon does not know.
NextOther ==
    \/ Connecting({TRUE})
    \/ \E s \in SessionIDs, msg \in FanInputs : SessionLoop(s, msg)
    \/ \E s \in SessionIDs : Disconnect(s)
    \/ Asking(OtherMethods, MaxServerReqs + 1)

SpecOther == InitRoots /\ [][NextOther]_vars

BothManaged == [n \in ServerNames |-> "managed"]

GateInputs == {InitializeRequest(Int1, {"roots"}), InitializeRequest(Int1, {"sampling"})}

GateSessions == {1, 2, 3}

\* Two of the three sessions send an initialize, or one sends two.
InitGate == InitConfig(BothManaged, FALSE, GateSessions, Cardinality(RouteSessions))

\* Two servers; sessions declare roots or sampling, servers ask for both.
NextGate ==
    \/ Connecting({TRUE})
    \/ \E s \in SessionIDs, msg \in GateInputs : SessionLoop(s, msg)
    \/ \E srv \in ServerNames, method \in FanMethods :
           ServerEmit(srv, ServerRequestOf(method), MaxServerReqs)

SpecGate == InitGate /\ [][NextGate]_vars

\* First lines: none, not JSON, and objects with one field wrong at a time.
HandshakeLines ==
    {FirstLine("eof", 0, "", ""), FirstLine("text", 0, "", ""),
     ConnectLine("mock"), ConnectLine("aux"), ConnectLine("ghost"), ConnectLine(""),
     FirstLine("object", 2, "connect", "mock"), FirstLine("object", 1, "status", "mock")}

\* The edits of the handshake specification: "aux" becomes managed, "mock" is
\* marked managed=false, and back.
ShakeEdits ==
    {<<"aux", "managed">>, <<"aux", "unmanaged">>, <<"mock", "unmanaged">>, <<"mock", "managed">>}

\* "mock" is managed and "aux" is declared with managed=false.
AuxUnmanaged == [n \in ServerNames |-> IF n = "mock" THEN "managed" ELSE "unmanaged"]

InitShake == InitConfig(AuxUnmanaged, FALSE, GateSessions, MaxMsgs - 1)

\* Connections open with any first line while the operator edits the config.
NextShake ==
    \/ \E s \in SessionIDs, line \in HandshakeLines : HandleConnection(s, line)
    \/ \E s \in SessionIDs : EnsureStart(s)
    \/ \E s \in SessionIDs, ok \in BOOLEAN : Spawn(s, ok)
    \/ \E s \in SessionIDs : EnsureInitializing(s)
    \/ \E s \in SessionIDs : EnsureReady(s)
    \/ \E e \in ShakeEdits : EditConfig(e[1], e[2])
    \/ \E s \in SessionIDs, msg \in SerInputs : SessionLoop(s, msg)
    \/ \E s \in SessionIDs : Disconnect(s)

SpecShake == InitShake /\ [][NextShake]_vars

ReloadLines == {ConnectLine("mock"), ConnectLine("aux")}

\* ConfigFilePath fails ("path") or Load does ("parse").
FileErrors == {"", "path", "parse"}

\* The edits of the reload specification: the entry of the running "mock" is
\* edited or removed, "aux" is declared with an edited entry or unmanaged.
ReloadEdits ==
    {<<"mock", "managed">>, <<"mock", "managed:v2">>, <<"mock", "absent">>,
     <<"aux", "managed:v2">>, <<"aux", "unmanaged">>}

\* Connections open with a well-formed connect while the operator edits the
\* config file and the file comes and goes.
NextReload ==
    \/ \E s \in SessionIDs, line \in ReloadLines : HandleConnection(s, line)
    \/ \E s \in SessionIDs : EnsureStart(s)
    \/ \E s \in SessionIDs : Spawn(s, TRUE)
    \/ \E s \in SessionIDs : EnsureInitializing(s)
    \/ \E s \in SessionIDs : EnsureReady(s)
    \/ \E e \in ReloadEdits : EditConfig(e[1], e[2])
    \/ \E err \in FileErrors : BreakConfig(err)

InitReload == InitConfig(AuxUnmanaged, FALSE, GateSessions, 0)

SpecReload == InitReload /\ [][NextReload]_vars

\* The daemon serves sessions until it is told to stop; once Run has returned
\* nothing reads what a server writes.
NextDown ==
    \/ Connecting({TRUE})
    \/ \E s \in SessionIDs, msg \in InitInputs : SessionLoop(s, msg)
    \/ \E s \in SessionIDs : Disconnect(s)
    \/ \E srv \in ServerNames, i \in 1..MaxLines, body \in ServerBodies :
           ServerRespond(srv, i, body)
    \/ Cancel
    \/ Shutdown

SpecDown == Init /\ [][NextDown]_vars

\* Session s has been sent a result for an initialize, the server's or the
\* cached one.
Initialized(s) ==
    InitializeAnswered(s) \/ \E i \in DOMAIN conn[s] : conn[s][i].path = "cache"

\* Sessions that follow the MCP handshake: initialize first, other requests
\* once its result has arrived. The server answers, and exits unexpectedly.
NextRestart ==
    \/ Connecting({TRUE})
    \/ \E s \in SessionIDs :
           ~Initialized(s) /\ SessionLoop(s, InitializeRequest(Int1, {}))
    \/ \E s \in SessionIDs :
           Initialized(s) /\ SessionLoop(s, Request(Int2, "tools/list"))
    \/ \E srv \in ServerNames, i \in 1..MaxLines, body \in ServerBodies :
           ServerRespond(srv, i, body)
    \/ \E srv \in ServerNames : Crash(srv)

InitRestart == InitWith(FALSE, RouteSessions, MaxMsgs + 1)

SpecRestart == InitRestart /\ [][NextRestart]_vars

ExitInputs == {InitializeRequest(Int1, {}), Request(Int2, "tools/list")}

InitExit == InitConfig(BothManaged, TRUE, RouteSessions, MaxMsgs)

\* Two serialize=true servers; their subprocesses exit at any point.
NextExit ==
    \/ Connecting({TRUE})
    \/ \E s \in SessionIDs, msg \in ExitInputs : SessionLoop(s, msg)
    \/ \E srv \in ServerNames, i \in 1..MaxLines, body \in ServerBodies :
           ServerRespond(srv, i, body)
    \/ \E srv \in ServerNames : WorkerTake(srv)
    \/ \E srv \in ServerNames : WorkerWake(srv)
    \/ \E srv \in ServerNames : Crash(srv)

SpecExit == InitExit /\ [][NextExit]_vars

\* A serialize=true server; sessions come and go, and the queue's processLoop
\* is scheduled whenever it can take an entry or return from one.
NextAdvance ==
    \/ Connecting({TRUE})
    \/ Routing(SerInputs)
    \/ \E srv \in ServerNames : WorkerTake(srv)
    \/ \E srv \in ServerNames : WorkerWake(srv)

SpecAdvance ==
    /\ InitSer
    /\ [][NextAdvance]_vars
    /\ \A srv \in ServerNames : WF_vars(WorkerTake(srv)) /\ WF_vars(WorkerWake(srv))

\* Two sessions of one server subscribe, asking for progress under a string
\* or an integer token, and disconnect; the server answers and reports progress
\* at any time, also after the session concerned has gone.
GoneTokens == {"\"t\"", "7"}

GoneInputs ==
    {[ResourceRequest(Int1, "resources/subscribe", u) EXCEPT !.params.progressToken = raw] :
        u \in URIs, raw \in GoneTokens}

InitGone == InitWith(FALSE, RouteSessions, MaxMsgs)

NextGone ==
    \/ Connecting({TRUE})
    \/ \E s \in SessionIDs, msg \in GoneInputs : SessionLoop(s, msg)
    \/ \E srv \in ServerNames, i \in 1..MaxLines :
           ServerRespond(srv, i, [result |-> Value("r1"), error |-> ""])
    \/ \E s \in SessionIDs : Disconnect(s)
    \/ \E srv \in ServerNames, raw \in GoneTokens :
           ServerEmit(srv, ProgressNotification(raw), MaxServerReqs)

SpecGone == InitGone /\ [][NextGone]_vars

\* Two servers, a session on each or both on one; sessions subscribe to the
\* same uri and the servers report that the resource was updated.
CrossInputs == {ResourceRequest(Int1, "resources/subscribe", u) : u \in URIs}

InitCross == InitConfig(BothManaged, FALSE, RouteSessions, MaxMsgs)

NextCross ==
    \/ Connecting({TRUE})
    \/ \E s \in SessionIDs, msg \in CrossInputs : SessionLoop(s, msg)
    \/ \E srv \in ServerNames, i \in 1..MaxLines :
           ServerRespond(srv, i, [result |-> Value("r1"), error |-> ""])
    \/ \E srv \in ServerNames, u \in URIs :
           ServerEmit(srv, ResourceUpdated(u), MaxServerReqs)

SpecCross == InitCross /\ [][NextCross]_vars

\* Sessions of one running server subscribe to what they are not subscribed to
\* and unsubscribe from what they are; the decision of an iteration and its
\* write are separate steps, so that the iterations of
\* different sessions interleave as their goroutines do.
InitRace == InitWith(FALSE, GateSessions, MaxMsgs + 1)

NextRace ==
    \/ Connecting({TRUE})
    \/ \E s \in SessionIDs, msg \in SubInputs :
           /\ pc[s] = "loop" /\ alive[serverName[s]]
           /\ isSubscribeRequest(msg) <=> s \notin subscriptions[msg.params.uri]
           /\ SubscribeDecide(s, msg)
    \/ \E s \in SessionIDs : SubscribeWrite(s)

SpecRace == InitRace /\ [][NextRace]_vars

\* Two sessions number their requests alike and cancel them, before or after
\* the server has answered; they also cancel a request they never sent.
CancelIds == {Int1, StrLt1Gt}

CancelInputs == {Request(Int1, "tools/list")} \cup {Cancelled(id) : id \in CancelIds}

InitCancel == InitWith(FALSE, RouteSessions, MaxMsgs + 1)

NextCancel == Connecting({TRUE}) \/ Routing(CancelInputs)

SpecCancel == InitCancel /\ [][NextCancel]_vars

\* Sessions send requests that the server may never answer, while time passes
\* up to the horizon. Run starts no goroutine besides the one that closes the
\* listener, and nothing calls IDMapper.GC.
StaleInputs == {Request(Int1, "tools/list")}

NextStale == Connecting({TRUE}) \/ Routing(StaleInputs) \/ Tick

SpecStale == Init /\ [][NextStale]_vars /\ WF_vars(Tick)

\* The handlers with the daemon lock in view. Every handler but
\* handleRootsList takes d.mu for a lookup or an update and releases it before
\* it writes, so it is one step that starts and ends with the lock free and
\* waits while another goroutine holds the lock; the fan-out of handleRootsList
\* is the three steps FanLock, FanWrite, FanUnlock.
InitLock == InitWith(FALSE, RouteSessions, MaxMsgs)

NextLock ==
    \/ mu = NoMu /\ Connecting({TRUE})
    \/ mu = NoMu /\ \E s \in SessionIDs, msg \in RootsInputs : SessionLoop(s, msg)
    \/ mu = NoMu /\ \E srv \in ServerNames, i \in 1..MaxLines, body \in ServerBodies :
                        ServerRespond(srv, i, body)
    \/ mu = NoMu /\ \E s \in SessionIDs : Disconnect(s)
    \/ \E srv \in ServerNames : FanLock(srv, MaxServerReqs)
    \/ FanWrite
    \/ FanUnlock

SpecLock == InitLock /\ [][NextLock]_vars

\* ------------------------------------------------------- SerializeQueue
\* The queue by itself, at the grain of its own synchronisation: every step
\* is one channel operation or one critical section of q.mu.

otherVars ==
    <<hostVars, serverVars, now, sessionVars, idVars, registryVars, queueVars, ioVars,
      emitted, requested, replied, declared, hello, handshook, asked, held, mu, nmsgs,
      limit, startLog, crashLog, budgetHit>>

\* The functions that are in the queue.
Queued == {sq.queue[i].fn : i \in DOMAIN sq.queue}

MutTrySendLost(n) == n

\* A non-blocking send on notify, a channel with room for one token.
TrySend(n) == IF n = 0 THEN n + 1 ELSE n

MutDequeueLast(queue) ==
    [entry |-> queue[Len(queue)], rest |-> SubSeq(queue, 1, Len(queue) - 1)]

\* processLoop's entry := q.queue[0]; q.queue = q.queue[1:].
Dequeue(queue) == [entry |-> Head(queue), rest |-> Tail(queue)]

\* Cancel's loop: the first entry with this id is marked.
QueueCancel(queue, id) ==
    LET hits == {i \in DOMAIN queue : queue[i].id = id}
    IN  IF hits = {} THEN queue
        ELSE [queue EXCEPT ![CHOOSE i \in hits : \A j \in hits : i <= j].cancelled = TRUE]

MutWaitDoneAtOnce(loop) == TRUE

\* q.wg.Wait() returns: processLoop has returned.
WaitDone(loop) == loop.pc = "exited"

\* Enqueue and EnqueueCancellable up to the append: the select on closed and,
\* for a cancellable entry, nextID.Add(1). On a closed queue the call returns
\* (0 from EnqueueCancellable) and the function is dropped.
EnqueueCall(c, cancellable) ==
    LET fn == sqLog.calls + 1
        id == IF cancellable THEN sq.nextID + 1 ELSE 0
    IN  /\ sqCall[c].pc = "idle"
        /\ sqLog.calls < MaxSerMsgs
        /\ IF sq.closed
           THEN /\ sqLog' = [sqLog EXCEPT !.calls = fn,
                                          !.discarded = @ \cup {fn},
                                          !.late = @ \cup {fn},
                                          !.ret = IF cancellable THEN Put(@, fn, 0) ELSE @]
                /\ UNCHANGED <<sq, sqCall>>
           ELSE /\ sqLog' = [sqLog EXCEPT !.calls = fn]
                /\ sq' = [sq EXCEPT !.nextID = IF cancellable THEN id ELSE @]
                /\ sqCall' = [sqCall EXCEPT ![c] = [pc |-> "append",
                                  entry |-> queueEntry(id, fn), cancellable |-> cancellable]]
        /\ UNCHANGED <<sqLoop, otherVars>>

\* q.mu.Lock(); q.queue = append(q.queue, entry); q.mu.Unlock().
EnqueueAppend(c) ==
    /\ sqCall[c].pc = "append"
    /\ sq' = [sq EXCEPT !.queue = Append(@, sqCall[c].entry)]
    /\ sqCall' = [sqCall EXCEPT ![c].pc = "notify"]
    /\ sqLog' = [sqLog EXCEPT !.appended = Append(@, sqCall[c].entry.fn)]
    /\ UNCHANGED <<sqLoop, otherVars>>

\* The non-blocking send on notify and the return (of the id, if cancellable).
EnqueueNotify(c) ==
    /\ sqCall[c].pc = "notify"
    /\ sq' = [sq EXCEPT !.notify = TrySend(@)]
    /\ sqCall' = [sqCall EXCEPT ![c] = [pc |-> "idle", entry |-> NoEntry, cancellable |-> FALSE]]
    /\ sqLog' = [sqLog EXCEPT !.ret = IF sqCall[c].cancellable
                                      THEN Put(@, sqCall[c].entry.fn, sqCall[c].entry.id)
                                      ELSE @,
                              !.full = @ \/ sq.notify > 0]
    /\ UNCHANGED <<sqLoop, otherVars>>

\* Cancel(id) with the id that EnqueueCancellable returned for fn.
CancelCall(c, fn) ==
    /\ sqCall[c].pc = "idle"
    /\ fn \in DOMAIN sqLog.ret
    /\ sq' = [sq EXCEPT !.queue = QueueCancel(@, sqLog.ret[fn])]
    /\ sqLog' = [sqLog EXCEPT
                    !.early = IF fn \in Queued THEN @ \cup {fn} ELSE @,
                    !.marked = @ \cup {sq'.queue[i].fn : i \in
                                          {j \in DOMAIN sq'.queue : sq'.queue[j].cancelled}}]
    /\ UNCHANGED <<sqLoop, sqCall, otherVars>>

\* Close: close(q.closed); the caller then waits for the wait group.
CloseCall(c) ==
    /\ sqCall[c].pc = "idle"
    /\ ~sq.closed
    /\ sq' = [sq EXCEPT !.closed = TRUE]
    /\ sqCall' = [sqCall EXCEPT ![c].pc = "wait"]
    /\ sqLog' = [sqLog EXCEPT !.atClose = sqLog.running]
    /\ UNCHANGED <<sqLoop, otherVars>>

\* q.wg.Wait() returns and with it Close.
CloseReturn(c) ==
    /\ sqCall[c].pc = "wait"
    /\ WaitDone(sqLoop)
    /\ sqCall' = [sqCall EXCEPT ![c].pc = "idle"]
    /\ sqLog' = [sqLog EXCEPT !.returned = TRUE]
    /\ UNCHANGED <<sq, sqLoop, otherVars>>

\* processLoop's outer select: it returns on closed, or takes the token of
\* notify; with both ready either case may be chosen.
LoopSelect ==
    /\ sqLoop.pc = "select"
    /\ \/ /\ sq.closed
          /\ sqLoop' = [sqLoop EXCEPT !.pc = "exited"]
          /\ sq' = sq
       \/ /\ sq.notify > 0
          /\ sq' = [sq EXCEPT !.notify = @ - 1]
          /\ sqLoop' = [sqLoop EXCEPT !.pc = "check"]
    /\ UNCHANGED <<sqCall, sqLog, otherVars>>

\* The inner loop's select on closed with a default.
LoopCheck ==
    /\ sqLoop.pc = "check"
    /\ sqLoop' = [sqLoop EXCEPT !.pc = IF sq.closed THEN "exited" ELSE "take"]
    /\ UNCHANGED <<sq, sqCall, sqLog, otherVars>>

\* The inner loop's critical section and what follows it: on an empty queue
\* back to the outer select; else the first entry is taken and, unless it is
\* cancelled, its function is called.
LoopTake ==
    /\ sqLoop.pc = "take"
    /\ IF sq.queue = << >>
       THEN /\ sqLoop' = [sqLoop EXCEPT !.pc = "select"]
            /\ UNCHANGED <<sq, sqLog>>
       ELSE LET d == Dequeue(sq.queue)
            IN  /\ sq' = [sq EXCEPT !.queue = d.rest]
                /\ IF d.entry.cancelled
                   THEN /\ sqLoop' = [sqLoop EXCEPT !.pc = "check"]
                        /\ sqLog' = [sqLog EXCEPT !.skipped = @ \cup {d.entry.fn}]
                   ELSE /\ sqLoop' = [pc |-> "run", entry |-> d.entry]
                        /\ sqLog' = [sqLog EXCEPT !.started = Append(@, d.entry.fn),
                                                  !.running = @ \cup {d.entry.fn}]
    /\ UNCHANGED <<sqCall, otherVars>>

\* entry.fn() returns.
FnReturn ==
    /\ sqLoop.pc = "run"
    /\ sqLoop' = [pc |-> "check", entry |-> NoEntry]
    /\ sqLog' = [sqLog EXCEPT !.running = @ \ {sqLoop.entry.fn}]
    /\ UNCHANGED <<sq, sqCall, otherVars>>

processLoop == LoopSelect \/ LoopCheck \/ LoopTake \/ FnReturn

NextQueue ==
    \/ \E c \in Callers, cancellable \in BOOLEAN : EnqueueCall(c, cancellable)
    \/ \E c \in Callers : EnqueueAppend(c)
    \/ \E c \in Callers : EnqueueNotify(c)
    \/ \E c \in Callers, fn \in 1..MaxSerMsgs : CancelCall(c, fn)
    \/ \E c \in Callers : CloseCall(c)
    \/ \E c \in Callers : CloseReturn(c)
    \/ LoopSelect
    \/ LoopCheck
    \/ LoopTake
    \/ FnReturn

SpecQueue == Init /\ [][NextQueue]_vars

\* The goroutines are scheduled: the worker goes on whenever it can, every
\* function it calls returns, and a caller inside Enqueue finishes its call.
NextQueueOpen ==
    \/ \E c \in Callers, cancellable \in BOOLEAN : EnqueueCall(c, cancellable)
    \/ \E c \in Callers : EnqueueAppend(c)
    \/ \E c \in Callers : EnqueueNotify(c)
    \/ \E c \in Callers, fn \in 1..MaxSerMsgs : CancelCall(c, fn)
    \/ LoopSelect
    \/ LoopCheck
    \/ LoopTake
    \/ FnReturn

SpecQueueFair ==
    /\ Init
    /\ [][NextQueueOpen]_vars
    /\ WF_vars(processLoop)
    /\ \A c \in Callers : WF_vars(EnqueueAppend(c)) /\ WF_vars(EnqueueNotify(c))

\* ------------------------------------------------------------------ claims

\* Lines of a session's connection that dispatchResponse wrote.
ResponseLines(s) == {i \in DOMAIN conn[s] : conn[s][i].path = "response"}

\* Lines of a server's stdin that are requests.
RequestLines(srv) == {i \in DOMAIN stdin[srv] : IsRequest(stdin[srv][i].msg)}

\* C1: for any interleaving of requests from sessions of one server, reused
\* original ids included, a response the server gives to a request of session A
\* is written to A's connection and to no other session's connection.
C1_NoCrossSessionLeak ==
    \A s \in SessionIDs : \A i \in ResponseLines(s) : conn[s][i].owner = s

\* Two sessions used the same original id and each has been sent a response.
C1_Witness ==
    \E a, b \in SessionIDs :
        /\ a # b
        /\ \E i \in ResponseLines(a), j \in ResponseLines(b) :
               /\ conn[a][i].msg.id = Int1
               /\ conn[b][j].msg.id = Int1

\* C2 as stated: when the server answers a forwarded request R of a session S
\* that is still connected, S is sent exactly one response for it, whose id is
\* R's original raw id, unchanged, and whose result and error are the server's.
C2_RoundTrip ==
    \A e \in emitted :
        LET line == stdin[e.server][e.idx]
            S == line.from
            got == {i \in ResponseLines(S) : conn[S][i].idx = e.idx}
        IN  (S # 0 /\ S \in e.live) =>
                /\ Cardinality(got) = 1
                /\ \A i \in got :
                       /\ conn[S][i].msg.id = issued[ParseUint(line.msg.id)].OriginalID
                       /\ conn[S][i].msg.result = e.msg.result
                       /\ conn[S][i].msg.error = e.msg.error

\* C3: the requests written to one server, those of sessions numbered by Map and
\* those of the daemon numbered by NextID, carry pairwise distinct ids, and the
\* shared counter hands its ids out in strictly increasing order.
C3_DistinctIncreasingIds ==
    /\ \A srv \in ServerNames : \A i, j \in RequestLines(srv) :
           i # j => stdin[srv][i].msg.id # stdin[srv][j].msg.id
    /\ \A i, j \in DOMAIN issueLog : i < j => issueLog[i] < issueLog[j]

\* A server has been sent a request of a session and a request of the daemon.
C3_Witness ==
    \E srv \in ServerNames : \E i, j \in RequestLines(srv) :
        stdin[srv][i].from # 0 /\ stdin[srv][j].from = 0

InitializeLines(srv) ==
    {i \in DOMAIN stdin[srv] : isInitializeRequest(stdin[srv][i].msg)}

InitializedLines(srv) ==
    {i \in DOMAIN stdin[srv] : isInitializedNotification(stdin[srv][i].msg)}

\* C4 as stated: for any interleaving of sessions, at most one initialize
\* request is ever written to a server's stdin.
C4_AtMostOneInitialize ==
    \A srv \in ServerNames : Cardinality(InitializeLines(srv)) <= 1

\* C5: while the init cache holds a result for a session's server, an initialize
\* request of the session is answered on its own connection with its own id and
\* the cached result; nothing is written to the server, no id is mapped, no
\* PendingInit entry is made, and the session's capabilities are those of the
\* request.
C5_CachedInitializeFrame ==
    [][\A s \in SessionIDs, msg \in InitInputs :
          (/\ pc[s] = "loop"
           /\ isInitializeRequest(msg)
           /\ initCache[serverName[s]] # NoResult
           /\ SessionLoop(s, msg)) =>
              /\ Len(conn'[s]) = Len(conn[s]) + 1
              /\ SubSeq(conn'[s], 1, Len(conn[s])) = conn[s]
              /\ conn'[s][Len(conn'[s])].msg.id = msg.id
              /\ conn'[s][Len(conn'[s])].msg.result = initCache[serverName[s]]
              /\ conn'[s][Len(conn'[s])].msg.error = ""
              /\ \A o \in SessionIDs \ {s} : conn'[o] = conn[o]
              /\ stdin' = stdin
              /\ counter' = counter
              /\ mappings' = mappings
              /\ pendingInit' = pendingInit
              /\ capabilities'[s].roots = ("roots" \in msg.params.capabilities)
              /\ capabilities'[s].sampling = ("sampling" \in msg.params.capabilities)]_vars

\* A session was answered from the cache, its capabilities were taken from its
\* request, and the server has seen the one initialize that filled the cache.
C5_Witness ==
    \E s \in SessionIDs :
        /\ \E i \in DOMAIN conn[s] : conn[s][i].path = "cache" /\ conn[s][i].msg.id = Int2
        /\ capabilities[s].roots
        /\ Cardinality(InitializeLines(serverName[s])) = 1

\* C6 as stated: for any interleaving of sessions, a server receives at most one
\* initialized notification.
C6_AtMostOneInitialized ==
    \A srv \in ServerNames : Cardinality(InitializedLines(srv)) <= 1

SubscribeLines(srv, u) ==
    {i \in DOMAIN stdin[srv] :
        isSubscribeRequest(stdin[srv][i].msg) /\ stdin[srv][i].msg.params.uri = u}

UnsubscribeLines(srv, u) ==
    {i \in DOMAIN stdin[srv] :
        isUnsubscribeRequest(stdin[srv][i].msg) /\ stdin[srv][i].msg.params.uri = u}

\* C7 as stated: the server receives exactly one resources/subscribe for a uri
\* in each period in which the uri has subscribers and exactly one
\* resources/unsubscribe each time the last subscriber goes: the subscribes sent
\* exceed the unsubscribes sent by one while there are subscribers, by none
\* otherwise.
C7_OneSubscribePerPeriod ==
    \A srv \in ServerNames, u \in URIs :
        Cardinality(SubscribeLines(srv, u)) - Cardinality(UnsubscribeLines(srv, u))
            = IF subscriptions[u] # {} THEN 1 ELSE 0

\* Requests of sessions the running subprocess has been sent and not answered.
InFlight(srv) ==
    IF alive[srv]
    THEN {i \in (procStart[srv] + 1)..Len(stdin[srv]) :
             /\ IsRequest(stdin[srv][i].msg)
             /\ stdin[srv][i].from # 0
             /\ i \notin Answered(srv)}
    ELSE {}

\* C8 as stated: at no time are two requests of sessions in flight at a server
\* with serialize=true.
C8_OneInFlight ==
    \A srv \in ServerNames : serialize[srv] => Cardinality(InFlight(srv)) <= 1

\* The edges the state table lists.
TableEdges ==
    {<<"STOPPED", "STARTING">>, <<"STARTING", "INITIALIZING">>, <<"STARTING", "STOPPED">>,
     <<"INITIALIZING", "READY">>, <<"INITIALIZING", "STOPPED">>, <<"READY", "DRAINING">>,
     <<"DRAINING", "STOPPED">>, <<"DRAINING", "READY">>}

\* C9 as stated: a managed server's state changes only along the edges of the
\* table, in every execution (start, start failure, unexpected exit).
C9_OnlyTableEdges ==
    [][\A n \in ServerNames :
          state'[n] = state[n] \/ <<state[n], state'[n]>> \in TableEdges]_vars

\* C9 amended: a managed server's state changes only along the edges of the
\* table or along READY -> STOPPED, the edge ForceStop takes when the subprocess
\* of a READY server exits unexpectedly.
C9_TableEdgesOrForceStop ==
    [][\A n \in ServerNames :
          \/ state'[n] = state[n]
          \/ <<state[n], state'[n]>> \in TableEdges \cup {<<"READY", "STOPPED">>}]_vars

\* A server that exited unexpectedly has been started again and is READY.
C9_Witness == \E n \in ServerNames : state[n] = "READY" /\ crashLog[n] # << >>

AnswersTo(r) ==
    LET q == requested[r]
    IN  {i \in DOMAIN stdin[q.server] :
            /\ i > q.at
            /\ stdin[q.server][i].from = 0
            /\ IsResponse(stdin[q.server][i].msg)
            /\ stdin[q.server][i].msg.id = MarshalRaw(q.msg.id)}

\* What the sessions answered to the fan-out requests of aggregator k.
FanoutAnswers(k) ==
    {r \in replied : /\ conn[r.session][r.line].path = "fanout"
                     /\ conn[r.session][r.line].idx = k}

\* Every session aggregator k addressed has answered its fan-out request.
AllAnswered(k) == \A s \in aggs[k].asked : \E r \in FanoutAnswers(k) : r.session = s

\* The roots entries of those answers.
RepliedRoots(k) ==
    UNION {{r.result.roots[x] : x \in DOMAIN r.result.roots} : r \in FanoutAnswers(k)}

\* C11: when every session a roots/list was fanned out to has answered and the
\* timer did not finalize first, the server has a response under the request's
\* id whose roots hold one entry per distinct uri of the sessions' answers,
\* each entry taken from one of the answers.
C11_FanoutMerge ==
    \A k \in DOMAIN aggs :
        AllAnswered(k) /\ aggs[k].by # "timer" =>
            \E i \in AnswersTo(aggs[k].req) :
                LET out == stdin[aggs[k].server][i].msg.result.roots
                IN  /\ stdin[aggs[k].server][i].msg.result.kind = "roots"
                    /\ stdin[aggs[k].server][i].msg.error = ""
                    /\ {out[x].uri : x \in DOMAIN out} = {e.uri : e \in RepliedRoots(k)}
                    /\ \A x, y \in DOMAIN out : out[x].uri = out[y].uri => x = y
                    /\ \A x \in DOMAIN out : out[x] \in RepliedRoots(k)

\* Two sessions answered one fan-out with overlapping uris and the merged
\* response is on the server's stdin.
C11_Witness ==
    \E k \in DOMAIN aggs :
        /\ AllAnswered(k)
        /\ aggs[k].by = "reply"
        /\ Cardinality(aggs[k].asked) = 2
        /\ Cardinality({r.result : r \in FanoutAnswers(k)}) = 2
        /\ Len(aggs[k].roots) > Cardinality({e.uri : e \in RepliedRoots(k)})
        /\ AnswersTo(aggs[k].req) # {}

\* The server's messages that are roots/list requests.
RootsRequests == {r \in DOMAIN requested : requested[r].msg.method = "roots/list"}

\* The aggregators created for the server's r-th message.
AggsOf(r) == {k \in DOMAIN aggs : aggs[k].req = r}

\* C12: every roots/list request of the server has at most one response under
\* its id, and exactly one as soon as it is settled: at once with no roots when
\* no session was capable, on the last answer when every addressed session
\* answered, on the timer otherwise with the roots collected until then. An
\* answer after the response, or a timer after it, writes nothing; no answer
\* of a session to a fan-out reaches the server.
C12_ExactlyOneAnswer ==
    /\ \A r \in RootsRequests :
           /\ Cardinality(AnswersTo(r)) <= 1
           /\ Cardinality(AggsOf(r)) <= 1
           /\ AggsOf(r) = {} =>
                  \E i \in AnswersTo(r) :
                      /\ i = requested[r].at + 1
                      /\ stdin[requested[r].server][i].msg.result = RootsResult(<< >>)
           /\ \A k \in AggsOf(r) :
                  /\ aggs[k].done <=> AnswersTo(r) # {}
                  /\ aggs[k].timer => aggs[k].done
                  /\ aggs[k].by = "reply" => Len(aggs[k].replies) >= Cardinality(aggs[k].asked)
                  /\ aggs[k].by = "timer" => aggs[k].timer
                  /\ \A i \in AnswersTo(r) :
                         LET out == stdin[requested[r].server][i].msg.result.roots
                         IN  {out[x].uri : x \in DOMAIN out} =
                                {aggs[k].roots[x].uri : x \in DOMAIN aggs[k].roots}
    /\ \A srv \in ServerNames : \A i \in DOMAIN stdin[srv] :
           IsResponse(stdin[srv][i].msg) => stdin[srv][i].from = 0

\* A roots/list was settled by its timer with one of two answers in, the other
\* session answered afterwards, and another case where no session was capable.
C12_Witness ==
    \E k \in DOMAIN aggs :
        /\ aggs[k].by = "timer"
        /\ Cardinality(aggs[k].asked) = 2
        /\ AllAnswered(k)
        /\ aggs[k].roots # << >>
        /\ Cardinality(AnswersTo(aggs[k].req)) = 1

\* The capability a line the daemon wrote for a server's request calls for.
CapabilityFor(line) == IF line.path = "fanout" THEN "roots" ELSE "sampling"

\* Session s is registered for server srv.
SessionOf(s, srv) == s \in sessions /\ serverName[s] = srv

\* C13: in every step, a fan-out roots/list is written only to a session that
\* is registered for the asking server and whose last initialize declared
\* roots, and a sampling/createMessage only to such a session that declared
\* sampling.
C13_CapabilityGating ==
    [][\A s \in SessionIDs :
          Len(conn'[s]) > Len(conn[s]) =>
              LET line == conn'[s][Len(conn'[s])]
              IN  line.path \in {"fanout", "sampling"} =>
                      /\ SessionOf(s, requested'[Len(requested')].server)
                      /\ CapabilityFor(line) \in declared[s]]_vars

\* A server's request is the last line of a session that declared the
\* capability, while a session of the same server that did not, and a session
\* of the other server that did, are registered and were written nothing.
C13_Witness ==
    \E s \in SessionIDs :
        /\ conn[s] # << >>
        /\ LET line == conn[s][Len(conn[s])]
           IN  /\ line.path \in {"fanout", "sampling"}
               /\ nmsgs = limit
               /\ SessionOf(s, requested[Len(requested)].server)
               /\ CapabilityFor(line) \in declared[s]
               /\ \E x \in sessions :
                      /\ serverName[x] = serverName[s]
                      /\ CapabilityFor(line) \notin declared[x]
                      /\ \A i \in DOMAIN conn[x] : conn[x][i].path = "handshake"
               /\ \E x \in sessions :
                      /\ serverName[x] # serverName[s]
                      /\ CapabilityFor(line) \in declared[x]
                      /\ \A i \in DOMAIN conn[x] : conn[x][i].path \in {"handshake", "cache"}

\* The connection lines written for the server's r-th message by code path p.
LinesFor(r, p) ==
    {<<s, i>> \in SessionIDs \X (1..MaxLines) :
        i \in DOMAIN conn[s] /\ conn[s][i].path = p /\ conn[s][i].idx = r}

\* The daemon's own error answers to the server's r-th message.
ErrorAnswers(r, code) ==
    {i \in AnswersTo(r) : stdin[requested[r].server][i].msg.error = code}

\* C19: a sampling/createMessage of the server is written to exactly one
\* session, with the server's id and envelope, and that session's answer is
\* written to the server under the same id; or, no session being capable, the
\* server gets one -32601 error under its id and no session gets a line.
C19_SamplingRouted ==
    \A r \in DOMAIN requested :
        requested[r].msg.method = "sampling/createMessage" =>
            LET q == requested[r]
            IN  \/ /\ Cardinality(LinesFor(r, "sampling")) = 1
                   /\ AnswersTo(r) = {}
                   /\ \A l \in LinesFor(r, "sampling") :
                          /\ conn[l[1]][l[2]].msg = q.msg
                          /\ \A a \in replied :
                                 a.session = l[1] /\ a.line = l[2] =>
                                     \E i \in DOMAIN stdin[q.server] :
                                         /\ stdin[q.server][i].from = l[1]
                                         /\ stdin[q.server][i].msg =
                                                Message(q.msg.id, "", NoParams, a.result, "")
                \/ /\ LinesFor(r, "sampling") = {}
                   /\ Cardinality(AnswersTo(r)) = 1
                   /\ ErrorAnswers(r, NoSamplingClient) = AnswersTo(r)

\* C20: a request of the server with a method other than ping, roots/list and
\* sampling/createMessage is answered with one -32601 "method not found" error
\* under its id and is written to no session.
C20_UnknownRequestRejected ==
    \A r \in DOMAIN requested :
        /\ IsRequest(requested[r].msg)
        /\ requested[r].msg.method \notin {"ping", "roots/list", "sampling/createMessage"}
        => /\ Cardinality(ErrorAnswers(r, MethodNotFound)) = 1
           /\ \A s \in SessionIDs : \A i \in DOMAIN conn[s] :
                  conn[s][i].path = "handshake" \/ conn[s][i].idx # r

\* The error envelope with the given code, as a connection line.
ErrorLine(code) == ConnLine(Envelope("error", code), "handshake", 0, 0)

ConnectedLine == ConnLine(Envelope("connected", ""), "handshake", 0, 0)

\* The first line is a connect of version 1 that names a server.
WellFormed(line) ==
    line.kind = "object" /\ line.mcpl = 1 /\ line.type = "connect" /\ line.server # ""

\* The step in which connection s sends its first line.
Hello(s) == pc[s] = "new" /\ pc'[s] # "new"

\* C15: a first line that is not JSON is answered with invalid_request, a
\* connect of another version with protocol_error, a well-formed connect for a
\* name outside the registry with unknown_server; "connected" is written only
\* to a connection whose first line was a well-formed connect for a server of
\* the registry.
C15_HandshakeCodes ==
    [][\A s \in SessionIDs :
          /\ Hello(s) =>
                 /\ hello'[s].kind = "text" => conn'[s] = <<ErrorLine("invalid_request")>>
                 /\ /\ hello'[s].kind = "object"
                    /\ hello'[s].type = "connect"
                    /\ hello'[s].mcpl # 1
                    => conn'[s] = <<ErrorLine("protocol_error")>>
                 /\ WellFormed(hello'[s]) /\ hello'[s].server \notin servers'
                    => conn'[s] = <<ErrorLine("unknown_server")>>
          /\ (\E i \in DOMAIN conn'[s] : conn'[s][i] = ConnectedLine) =>
                 WellFormed(hello'[s]) /\ hello'[s].server \in servers']_vars

\* Three connections were refused, one with each of the three codes.
C15_Witness ==
    \E a, b, c \in SessionIDs :
        /\ hello[a].kind = "text" /\ conn[a] = <<ErrorLine("invalid_request")>>
        /\ hello[b].mcpl = 2 /\ conn[b] = <<ErrorLine("protocol_error")>>
        /\ hello[c].server = "ghost" /\ conn[c] = <<ErrorLine("unknown_server")>>

\* C16: a first line that is a JSON object of version 1 whose type is not
\* "connect" is answered with invalid_request.
C16_WrongTypeInvalidRequest ==
    \A s \in SessionIDs :
        /\ hello[s].kind = "object"
        /\ hello[s].mcpl = 1
        /\ hello[s].type # "connect"
        => conn[s] = <<ErrorLine("invalid_request")>>

HandshakeCodes == {"invalid_request", "protocol_error", "unknown_server", "start_failed"}

\* Connection s holds an error envelope.
Refused(s) == \E i \in DOMAIN conn[s] : conn[s][i].msg.result = Value("error")

\* C17: a connection whose handshake failed holds exactly one error line, its
\* last, with one of the four codes; it is closed, it is neither in the session
\* registry nor in any server's connection set, and no line on any server's
\* stdin comes from it. A connection that ends without "connected" after
\* sending a first line is such a connection.
C17_FailedHandshakeNoTrace ==
    \A s \in SessionIDs :
        /\ Refused(s) =>
               /\ Cardinality({i \in DOMAIN conn[s] : conn[s][i].msg.result = Value("error")}) = 1
               /\ conn[s][Len(conn[s])] \in {ErrorLine(c) : c \in HandshakeCodes}
               /\ pc[s] = "closed"
               /\ s \notin sessions
               /\ \A srv \in ServerNames : s \notin connections[srv]
               /\ \A srv \in ServerNames : \A i \in DOMAIN stdin[srv] : stdin[srv][i].from # s
        /\ /\ pc[s] = "closed"
           /\ hello[s].kind # "eof"
           /\ \A i \in DOMAIN conn[s] : conn[s][i] # ConnectedLine
           => Refused(s)

\* A connection was refused with start_failed after it had been registered,
\* another was refused before registration, and a third one is being served
\* and has had a line forwarded.
C17_Witness ==
    \E a, b, c \in SessionIDs :
        /\ conn[a] = <<ErrorLine("start_failed")>>
        /\ conn[b] = <<ErrorLine("unknown_server")>>
        /\ pc[c] = "loop"
        /\ \E i \in DOMAIN stdin[serverName[c]] : stdin[serverName[c]][i].from = c

\* C18: after every reload, no entry the config file declares managed=false is
\* in the registry, and a well-formed connect naming such an entry is answered
\* with unknown_server.
C18_UnmanagedNeverTracked ==
    [][\A s \in SessionIDs :
          Hello(s) /\ WellFormed(hello'[s]) =>
              /\ \A n \in servers' : cfgFile[n] # "unmanaged"
              /\ \A n \in ServerNames :
                     hello'[s].server = n /\ cfgFile[n] = "unmanaged" =>
                         conn'[s] = <<ErrorLine("unknown_server")>>]_vars

\* C14: once shutdown has run, every session's connection is closed, the
\* pending maps are empty, the socket and PID files are gone and no server
\* subprocess is alive.
C14_GracefulShutdown ==
    listener = "down" =>
        /\ \A s \in sessions : pc[s] = "closed"
        /\ pendingInit = Empty
        /\ pendingFanout = Empty
        /\ files = {}
        /\ \A srv \in ServerNames : ~alive[srv]

\* The part of C14 that does not concern the subprocesses.
C14_ShutdownCleansDaemon ==
    listener = "down" =>
        /\ \A s \in sessions : pc[s] = "closed"
        /\ pendingInit = Empty
        /\ pendingFanout = Empty
        /\ files = {}

\* A handshake step that gets as far as the reload.
Reloads(s) == Hello(s) /\ WellFormed(hello'[s])

\* What the daemon holds of a server: registry entry, config reference, state,
\* crash record and subprocess.
Held(n) == <<n \in servers, config[n], state[n], crashes[n], alive[n], procStart[n]>>

\* C21: a reload on a handshake adds to the registry exactly the managed
\* entries of the file that it lacks and stores the loaded configuration; for
\* every server already in the registry the config reference, the state, the
\* crash record and the subprocess are unchanged, also when its entry has
\* been edited or removed; a reload that fails changes neither the registry nor
\* the stored configuration. No other step changes the registry.
C21_ReloadFrame ==
    [][/\ servers \subseteq servers'
       /\ \A n \in servers : config'[n] = config[n]
       /\ \A s \in SessionIDs :
              Reloads(s) =>
                  /\ \A n \in servers : Held(n)' = Held(n)
                  /\ IF fileErr # ""
                     THEN servers' = servers /\ cfg' = cfg /\ config' = config
                     ELSE /\ cfg' = cfgFile
                          /\ servers' \ servers =
                                 {n \in ServerNames \ servers : IsManaged(cfgFile[n])}
                          /\ \A n \in servers' \ servers : config'[n] = cfgFile[n]
       /\ (\A s \in SessionIDs : ~Reloads(s)) =>
              servers' = servers /\ cfg' = cfg /\ config' = config]_vars

\* "mock" runs with the entry it was made from although the file no longer
\* declares it, "aux" was added by a reload from an edited entry, and the
\* stored configuration differs from a file that cannot be read now.
C21_Witness ==
    /\ servers = {"mock", "aux"}
    /\ cfgFile["mock"] = "absent" /\ config["mock"] = "managed" /\ alive["mock"]
    /\ config["aux"] = "managed:v2" /\ cfg["aux"] = "managed:v2"
    /\ cfgFile["aux"] = "unmanaged"
    /\ fileErr = "parse"
    /\ \A s \in GateSessions : pc[s] = "loop"

\* The place of a stdin line in the order in which its session sent its lines:
\* a request gets the next id of the counter, any other line is sent between
\* two requests.
SendKey(line) == IF IsRequest(line.msg) THEN 2 * line.at + 1 ELSE 2 * line.at

\* The lines of session s on the stdin of srv are in the order s sent them.
InSendOrder(s, srv) ==
    \A i, j \in DOMAIN stdin[srv] :
        /\ i < j
        /\ stdin[srv][i].from = s
        /\ stdin[srv][j].from = s
        => SendKey(stdin[srv][i]) <= SendKey(stdin[srv][j])

\* C22: for every session, the requests and notifications it sent that were
\* forwarded are on the server's stdin in the order the session sent them,
\* with serialize=false and with serialize=true.
C22_PerSessionOrder ==
    \A s \in SessionIDs, srv \in ServerNames : InSendOrder(s, srv)

\* The part of C22 that concerns a server with serialize=false.
C22_OrderUnserialized ==
    \A s \in SessionIDs, srv \in ServerNames : ~serialize[srv] => InSendOrder(s, srv)

\* The part of C22 that concerns the requests of a server with serialize=true.
C22_RequestOrderSerialized ==
    \A s \in SessionIDs, srv \in ServerNames :
        \A i, j \in DOMAIN stdin[srv] :
            /\ i < j
            /\ stdin[srv][i].from = s /\ IsRequest(stdin[srv][i].msg)
            /\ stdin[srv][j].from = s /\ IsRequest(stdin[srv][j].msg)
            => SendKey(stdin[srv][i]) < SendKey(stdin[srv][j])

\* C23: when a session has sent initialize, has been sent the server's result
\* for it, and has then sent initialized, that notification is on the server's
\* stdin.
C23_FirstInitializedForwarded ==
    \A s \in handshook :
        \E i \in InitializedLines(serverName[s]) : stdin[serverName[s]][i].from = s

\* The lines written to the stdin of the subprocess of srv that runs now.
ProcessLines(srv) == (procStart[srv] + 1)..Len(stdin[srv])

\* Every request of a session on the stdin of the running subprocess of srv,
\* unless it is an initialize, has an initialize before it on that stdin.
InitializedFirst(srv) ==
    \A i \in ProcessLines(srv) :
        /\ stdin[srv][i].from # 0
        /\ IsRequest(stdin[srv][i].msg)
        /\ ~isInitializeRequest(stdin[srv][i].msg)
        => \E j \in ProcessLines(srv) : j < i /\ isInitializeRequest(stdin[srv][j].msg)

\* C24: a subprocess started after an unexpected exit of the server is sent an
\* initialize before any other request of a session.
C24_RestartedInitialized ==
    \A srv \in ServerNames : alive[srv] /\ crashLog[srv] # << >> => InitializedFirst(srv)

\* The same for the first subprocess of a server.
C24_FirstProcessInitialized ==
    \A srv \in ServerNames : alive[srv] /\ crashLog[srv] = << >> => InitializedFirst(srv)

\* The subprocess of srv exits in this step while the server is not STOPPED.
UnexpectedExit(srv) == alive[srv] /\ ~alive'[srv] /\ state[srv] # "STOPPED"

\* The pendingInit entries that name srv.
PendingInitOf(pi, srv) == {g \in DOMAIN pi : pi[g] = srv}

\* C25: in the step in which a subprocess exits while its server is not
\* STOPPED, the exit time is appended to the crash record, the state becomes
\* STOPPED, every serialize waiter of the server is closed and removed so that
\* a blocked queue worker can go on, and no pendingInit entry names the server
\* afterwards; state, crash record, waiters and pendingInit entries of the
\* other servers are unchanged.
C25_UnexpectedExit ==
    [][\A srv \in ServerNames :
          UnexpectedExit(srv) =>
              /\ crashes'[srv] # << >> /\ crashes'[srv][Len(crashes'[srv])] = now
              /\ state'[srv] = "STOPPED"
              /\ serializeWaiters'[srv] = {}
              /\ serializeWaiters[srv] \subseteq closedDone'
              /\ worker[srv] # 0 => worker[srv] \in closedDone'
              /\ PendingInitOf(pendingInit', srv) = {}
              /\ \A o \in ServerNames \ {srv} :
                     /\ state'[o] = state[o]
                     /\ crashes'[o] = crashes[o]
                     /\ alive'[o] = alive[o]
                     /\ serializeWaiters'[o] = serializeWaiters[o]
                     /\ PendingInitOf(pendingInit', o) = PendingInitOf(pendingInit, o)]_vars

\* A server exited while its queue worker was blocked on a request that was
\* never answered and while its initialize was pending; the other server still
\* has a pending initialize and an open waiter.
C25_Witness ==
    \E srv, o \in ServerNames :
        /\ srv # o
        /\ state[srv] = "STOPPED" /\ ~alive[srv] /\ crashes[srv] # << >>
        /\ worker[srv] # 0 /\ worker[srv] \in closedDone
        /\ \A e \in emitted : e.server # srv
        /\ \E i \in DOMAIN stdin[srv] : isInitializeRequest(stdin[srv][i].msg)
        /\ PendingInitOf(pendingInit, srv) = {}
        /\ PendingInitOf(pendingInit, o) # {}
        /\ serializeWaiters[o] # {}

\* server.Start fails in this step of the handshake of s.
SpawnFails(s) == pc[s] = "spawn" /\ pc'[s] = "closed"

\* C26: when starting the subprocess fails, the handshaking session is sent
\* start_failed and is unregistered, the server is STOPPED and its crash record
\* is unchanged; a server is in STARTING only while a handshake is starting it;
\* and a handshake that finds the server STOPPED goes on to start it, calling
\* Start unless the crash budget is exhausted.
C26_SpawnFailureRecovery ==
    [][/\ \A s \in SessionIDs :
              SpawnFails(s) =>
                  /\ conn'[s] = <<ErrorLine("start_failed")>>
                  /\ s \notin sessions'
                  /\ state'[serverName[s]] = "STOPPED"
                  /\ ~alive'[serverName[s]]
                  /\ crashes'[serverName[s]] = crashes[serverName[s]]
       /\ \A srv \in ServerNames :
              state'[srv] = "STARTING" =>
                  \E s \in SessionIDs : pc'[s] \in {"spawn", "toInit"} /\ serverName'[s] = srv
       /\ \A s \in SessionIDs :
              /\ Hello(s) /\ s \in sessions' /\ state[serverName'[s]] = "STOPPED"
                 => pc'[s] = "ensure"
              /\ /\ pc[s] = "ensure" /\ pc'[s] # "ensure"
                 /\ state[serverName[s]] = "STOPPED"
                 /\ ~IsFailed(crashes[serverName[s]], now)
                 => pc'[s] = "spawn"]_vars

\* The first connection's start failed at Start with no exit on record, and the
\* second connection's handshake started the server.
C26_Witness ==
    /\ pool = SessionIDs \ {1, 2}
    /\ conn[1] = <<ErrorLine("start_failed")>>
    /\ startLog.session = 2 /\ startLog.outcome = "starting"
    /\ pc[2] = "loop" /\ serverName[2] = serverName[1]
    /\ alive[serverName[2]]
    /\ crashLog[serverName[2]] = << >>

\* C27: where Start always succeeds and no subprocess exits, every handshake
\* for a managed server ends with "connected": none is refused with
\* start_failed because another handshake is starting the server.
C27_ConcurrentHandshakesConnect ==
    \A s \in SessionIDs : \A i \in DOMAIN conn[s] : conn[s][i] # ErrorLine("start_failed")

\* The part of C27 about the subprocess: it is started by one handshake only.
C27_SpawnedOnce ==
    [][\A srv \in ServerNames : alive[srv] => alive'[srv] /\ procStart'[srv] = procStart[srv]]_vars

\* Session s answers line i of its connection in this step.
Answering(s, i) == \E r \in replied' \ replied : r.session = s /\ r.line = i

\* C28: an answer a session gives to a line the daemon wrote to it is taken
\* for a fan-out reply only when that line is a fan-out request whose id is
\* pending for its aggregator; an answer to another line, a forwarded
\* sampling/createMessage, say, leaves aggregators and pending fan-outs as they
\* are and is written to the session's server.
C28_FanoutAttribution ==
    [][\A s \in SessionIDs : \A i \in DOMAIN conn[s] :
          Answering(s, i) =>
              LET line == conn[s][i]
                  id == line.msg.id
              IN  IF line.path = "fanout"
                  THEN aggs' # aggs =>
                           /\ ParseUint(id) \in DOMAIN pendingFanout
                           /\ pendingFanout[ParseUint(id)] = line.idx
                  ELSE /\ aggs' = aggs
                       /\ pendingFanout' = pendingFanout
                       /\ Len(stdin'[serverName[s]]) = Len(stdin[serverName[s]]) + 1
                       /\ LET out == stdin'[serverName[s]][Len(stdin'[serverName[s]])]
                          IN  out.from = s /\ IsResponse(out.msg) /\ out.msg.id = id]_vars

\* The server has emitted a response to the request the queue worker of srv
\* blocks on.
WorkerAnswered(srv) ==
    /\ worker[srv] # 0
    /\ \E e \in emitted :
           e.server = srv /\ stdin[srv][e.idx].msg.id = FormatUint(worker[srv])

\* The servers of the serialize=true specifications; their sessions send at
\* most MaxSerMsgs requests, numbered from 1.
SerServers == {n \in ServerNames : IsManaged(OnlyMock[n])}

\* Entry g is the next the queue worker of srv takes.
NextQueued(srv, g) == serializeQueue[srv] # << >> /\ Head(serializeQueue[srv]).gid = g

\* C29: at a serialize=true server, once the server has emitted a response to
\* the request in flight the worker's channel is closed, whether or not the
\* response could be routed, and the worker returns and takes the next queued
\* entry; the worker blocks only on an entry it has written, so a failed write
\* releases it too.
C29_QueueAdvances ==
    /\ [](\A srv \in ServerNames : WorkerAnswered(srv) => worker[srv] \in closedDone)
    /\ [](\A srv \in ServerNames :
             worker[srv] # 0 =>
                 \E i \in DOMAIN stdin[srv] : stdin[srv][i].msg.id = FormatUint(worker[srv]))
    /\ \A srv \in SerServers : WorkerAnswered(srv) ~> worker[srv] = 0
    /\ \A srv \in SerServers : \A g \in 1..MaxSerMsgs :
           NextQueued(srv, g) /\ (worker[srv] = 0 \/ WorkerAnswered(srv)) ~> ~NextQueued(srv, g)

\* The server answered the request in flight after its session had gone, the
\* worker went on and wrote the next queued request; another entry was dropped
\* because its write failed.
C29_Witness ==
    \E srv \in ServerNames :
        /\ \E e \in emitted :
               /\ e.server = srv
               /\ stdin[srv][e.idx].from \notin e.live
               /\ \E j \in DOMAIN stdin[srv] : j > e.idx /\ stdin[srv][j].from # 0
        /\ \E g \in closedDone :
               \A i \in DOMAIN stdin[srv] : stdin[srv][i].msg.id # FormatUint(g)


\* The sessions that sent a request under the progress token with key k.
Registrants(k) == {s \in SessionIDs : k \in asked[s]}

\* No registry holds an entry for a session whose handler has returned.
Cleaned ==
    \A s \in SessionIDs :
        pc[s] = "closed" =>
            /\ s \notin sessions
            /\ \A srv \in ServerNames : s \notin connections[srv]
            /\ \A k \in DOMAIN progressTokens : progressTokens[k] # s
            /\ \A u \in DOMAIN subscriptions : s \notin subscriptions[u]

\* The cleanup of session s takes away the entries of s and nothing else.
CleanupOf(s) ==
    /\ sessions' = sessions \ {s}
    /\ \A srv \in ServerNames : connections'[srv] = connections[srv] \ {s}
    /\ DOMAIN progressTokens' = {k \in DOMAIN progressTokens : progressTokens[k] # s}
    /\ \A k \in DOMAIN progressTokens' : progressTokens'[k] = progressTokens[k]
    /\ \A u \in DOMAIN subscriptions : subscriptions'[u] = subscriptions[u] \ {s}

\* A response to a request of a session that has gone reaches no connection.
LateResponseDropped ==
    \A e \in emitted' \ emitted :
        LET from == stdin[e.server][e.idx].from
        IN  from \in SessionIDs /\ pc[from] = "closed" => conn' = conn

\* A progress notification reaches only a registered session that asked for
\* progress under its token: when all who did have gone, it reaches no one.
LateProgressDropped ==
    Len(requested') > Len(requested) =>
        LET msg == requested'[Len(requested')].msg
        IN  ClassifyServerMessage(msg) = "Progress" =>
                \A s \in SessionIDs :
                    conn'[s] # conn[s] =>
                        /\ pc[s] = "loop"
                        /\ s \in Registrants(TokenKey(msg.params.progressToken))

\* C30: once a session's connection has closed and its handler has returned,
\* the session registry, the server's connection set, the progress-token table
\* and the subscription tracker hold no entry for it; the cleanup leaves the
\* tokens and subscriptions of the other sessions as they were; a later
\* response to one of its requests, or a progress notification under a token
\* only it had asked under, is written to no connection.
C30_DisconnectCleanup ==
    /\ []Cleaned
    /\ [][/\ \A s \in SessionIDs : pc[s] = "loop" /\ pc'[s] = "closed" => CleanupOf(s)
          /\ LateResponseDropped
          /\ LateProgressDropped]_vars

\* Session d has gone after asking for progress and subscribing; another
\* session keeps its own token and the subscription; since then the server has
\* answered d's request and reported progress under d's token.
C30_Witness ==
    \E d \in SessionIDs, o \in SessionIDs, k \in {"t", "7"} :
        /\ pc[d] = "closed" /\ pc[o] = "loop"
        /\ Registrants(k) = {d}
        /\ \E k2 \in DOMAIN progressTokens : progressTokens[k2] = o
        /\ \E u \in DOMAIN subscriptions : subscriptions[u] = {o}
        /\ asked[d] # {} /\ asked[o] # {}
        /\ \E e \in emitted : stdin[e.server][e.idx].from = d /\ d \notin e.live
        /\ \E r \in DOMAIN requested :
               /\ TokenKey(requested[r].msg.params.progressToken) = k
               /\ \E i \in 1..requested[r].at :
                      /\ stdin[requested[r].server][i].from = d
                      /\ ExtractProgressToken(stdin[requested[r].server][i].msg) =
                             [ok |-> TRUE, token |-> k]
               /\ \A i \in DOMAIN conn[d] : conn[d][i].path # "progress"


\* The progress notification the server emits in this step, if it emits one.
ProgressStep(srv, k) ==
    /\ Len(requested') > Len(requested)
    /\ LET r == requested'[Len(requested')]
       IN  /\ r.server = srv
           /\ ClassifyServerMessage(r.msg) = "Progress"
           /\ TokenKey(r.msg.params.progressToken) = k

\* The step appends one line to the connection of session s, written by
\* dispatchProgress.
ProgressDelivered(s) ==
    /\ Len(conn'[s]) = Len(conn[s]) + 1
    /\ conn'[s][Len(conn'[s])].path = "progress"

\* C31: a progress notification under token T emitted by the server of a
\* connected session A that asked for progress under T is delivered to A, and to
\* no session that did not ask under T, whatever tokens other sessions use.
C31_ProgressRouted ==
    [][\A srv \in ServerNames : \A k \in {"t", "7"} :
          ProgressStep(srv, k) =>
              \A s \in SessionIDs :
                  /\ (pc[s] = "loop" /\ serverName[s] = srv /\ k \in asked[s])
                         => ProgressDelivered(s)
                  /\ k \notin asked[s] => conn'[s] = conn[s]]_vars


\* The sessions of server srv subscribed to uri u.
SubscribersOf(srv, u) == {s \in subscriptions[u] : serverName[s] = srv}

\* Session s becomes the first subscriber to u among the sessions of its
\* server, whose subprocess runs, and resources/subscribe is written to it.
FirstSubscribeForwarded(s, u) ==
    LET srv == serverName[s]
    IN  (/\ s \notin subscriptions[u] /\ s \in subscriptions'[u]
         /\ SubscribersOf(srv, u) = {}
         /\ alive[srv])
            => /\ Len(stdin'[srv]) = Len(stdin[srv]) + 1
               /\ isSubscribeRequest(stdin'[srv][Len(stdin'[srv])].msg)
               /\ stdin'[srv][Len(stdin'[srv])].msg.params.uri = u

\* A notifications/resources/updated of server srv changes the connections of
\* the subscribed sessions of srv and no other.
UpdateDelivered(srv, u) ==
    (/\ Len(requested') > Len(requested)
     /\ requested'[Len(requested')].server = srv
     /\ ClassifyServerMessage(requested'[Len(requested')].msg) = "ResourceUpdated"
     /\ requested'[Len(requested')].msg.params.uri = u)
        => \A s \in SessionIDs : conn'[s] # conn[s] <=> s \in SubscribersOf(srv, u)

\* C32: subscriptions are counted per server. The first subscriber to a uri on
\* each server has its resources/subscribe forwarded to that server, and a
\* resource update of a server goes to the subscribed sessions of that server
\* only.
C32_SubscriptionsPerServer ==
    [][/\ \A s \in SessionIDs : \A u \in URIs : FirstSubscribeForwarded(s, u)
       /\ \A srv \in ServerNames : \A u \in URIs : UpdateDelivered(srv, u)]_vars


\* The subscribe and unsubscribe requests for u on the stdin of srv.
SubLines(srv, u) ==
    {i \in DOMAIN stdin[srv] :
        /\ isSubscribeRequest(stdin[srv][i].msg) \/ isUnsubscribeRequest(stdin[srv][i].msg)
        /\ stdin[srv][i].msg.params.uri = u}

\* The last of them is a subscribe.
LastIsSubscribe(srv, u) ==
    /\ SubLines(srv, u) # {}
    /\ \E i \in SubLines(srv, u) :
           /\ \A j \in SubLines(srv, u) : j <= i
           /\ isSubscribeRequest(stdin[srv][i].msg)

\* C33: however one session's unsubscribe and another's subscribe for the same
\* uri interleave, once every iteration has written what it decided to write, a
\* uri that has subscribers was last subscribed, not unsubscribed, at the server.
C33_SubscribeRaceConsistent ==
    (\A s \in SessionIDs : held[s] = NoHeld) =>
        \A u \in URIs : subscriptions[u] # {} => LastIsSubscribe("mock", u)


\* The global ids handed out to session s for requests it numbered id, whose
\* mapping the mapper still holds.
StillMapped(s, id) ==
    {g \in DOMAIN mappings :
        g \in DOMAIN issued /\ issued[g] = [OriginalID |-> id, SessionID |-> s]}

\* The step appends one line to the stdin of srv.
Written(srv) == Len(stdin'[srv]) = Len(stdin[srv]) + 1

\* What the loop of session s does with the cancellation msg.
CancellationForwarded(s, msg) ==
    LET srv == serverName[s]
        id == msg.params.requestId
        out == stdin'[srv][Len(stdin'[srv])].msg
    IN  /\ counter' = counter /\ mappings' = mappings /\ issueLog' = issueLog
        /\ alive[srv] =>
               /\ Written(srv)
               /\ isCancellationNotification(out)
               /\ stdin'[srv][Len(stdin'[srv])].from = s
               /\ IF StillMapped(s, id) = {}
                  THEN out = Serialize(msg)
                  ELSE /\ IsUint(out.params.requestId)
                       /\ ParseUint(out.params.requestId) \in StillMapped(s, id)

MappingTTL == MaxTime \div 2

\* The mapper holds a mapping for g that is older than the TTL.
Stale(g) == g \in DOMAIN mappings /\ now - mappings[g].CreatedAt > MappingTTL

\* C36: while the daemon runs and time passes, a mapping older than the TTL
\* is eventually removed from the mapper, whether or not the server answers.
C36_StaleMappingsCollected ==
    \A g \in 1..MaxLines : Stale(g) ~> g \notin DOMAIN mappings

\* IDMapper.GC, were it called, keeps every mapping that is not older than
\* the TTL and drops the others.
C36_GCKeepsYoung ==
    \A g \in DOMAIN mappings :
        g \in DOMAIN GC(mappings, MappingTTL, now) <=> ~Stale(g)


\* The step writes a line to a session's connection or to a server's stdin.
Writes == conn' # conn \/ stdin' # stdin

\* C35: no line is written to a session's connection or to a server's stdin
\* while the daemon lock is held.
C35_NoWriteUnderLock == [][Writes => mu = NoMu]_vars


\* The functions the worker has called, those that were appended.
Started == {sqLog.started[i] : i \in DOMAIN sqLog.started}

Appended == {sqLog.appended[i] : i \in DOMAIN sqLog.appended}

\* The place of fn in the order of the appends.
AppendedAt(fn) == CHOOSE i \in DOMAIN sqLog.appended : sqLog.appended[i] = fn

\* C37: at most one entry's function is executing at any time, and the
\* functions are called in the order in which their entries were appended,
\* however the calls of Enqueue interleave.
C37_OneAtATimeInOrder ==
    /\ Cardinality(sqLog.running) <= 1
    /\ Started \subseteq Appended
    /\ \A i, j \in DOMAIN sqLog.started :
           i < j => AppendedAt(sqLog.started[i]) < AppendedAt(sqLog.started[j])

\* Two calls of Enqueue overlapped (the later call appended first) and both
\* functions have been called.
C37_Witness ==
    /\ Len(sqLog.started) > 1
    /\ sqLog.appended[1] > sqLog.appended[Len(sqLog.appended)]
    /\ sqLog.started[1] > sqLog.started[Len(sqLog.started)]

\* C38: while the queue is not closed and every function returns, an entry
\* that was appended and is not cancelled is eventually executed, although
\* notify holds one token and the sends on it do not block: again and again
\* every entry appended so far has been executed or cancelled.
C38_NoLostWakeup ==
    []<>(sq.closed \/ Appended \subseteq Started \cup sqLog.marked)

\* A send found notify full, and every appended entry was executed on the
\* open queue all the same.
C38_Witness ==
    /\ sqLog.full
    /\ ~sq.closed
    /\ Len(sqLog.appended) > 1
    /\ Started = Appended

\* C39: an entry cancelled by the id EnqueueCancellable returned for it, while
\* it was still queued, never executes; and the worker passes over no entry
\* but one that was cancelled so.
C39_CancelOnlyItsEntry ==
    /\ sqLog.early \cap Started = {}
    /\ sqLog.skipped \subseteq sqLog.early

\* The first half by itself.
C39_EarlyCancelNeverRuns == sqLog.early \cap Started = {}

\* Cancel with the id of an entry that was already called changes nothing.
C39_LateCancelNoEffect ==
    [][\A c \in Callers, fn \in Started : CancelCall(c, fn) => sq' = sq /\ sqLoop' = sqLoop]_vars

\* C40: Close returns only once processLoop has returned, the function that
\* ran when Close was called having finished; after Close has returned no
\* function is called; a call of Enqueue or EnqueueCancellable on the closed
\* queue returns at once, and its function is neither queued nor called.
C40_CloseWaits ==
    [][/\ sqLog'.returned => /\ sqLoop'.pc = "exited"
                             /\ sqLog'.running = {}
                             /\ sqLog'.atClose \cap sqLog'.running = {}
       /\ sqLog.returned => sqLog'.started = sqLog.started
       /\ sqLog'.late # sqLog.late => sq' = sq /\ sqCall' = sqCall
       /\ sqLog'.late \cap (Appended \cup Started \cup Queued) = {}]_vars

\* Close was called while a function ran and has returned, and a function
\* was passed to the queue afterwards.
C40_Witness ==
    /\ sqLog.returned
    /\ sqLog.atClose # {}
    /\ sqLog.late # {}

====
